---- MODULE Spec2Model ----
(***************************************************************************)
(* Polyfolio (src/app.js): the paginated fetch client, and the analyze     *)
(* flow that fires the endpoint fetches and renders as each one lands.     *)
(*                                                                         *)
(* Three specifications:                                                   *)
(*   SpecPages  one call of fetchAllPages, one await at a time, against a  *)
(*              server that may answer each request in any way;            *)
(*   SpecLookup one call of analyze: its six fetches settle in any order;  *)
(*   Spec       the page: load/back/hash events, analyze batches and the   *)
(*              continuations of their fetches, in every interleaving.     *)
(***************************************************************************)
EXTENDS Integers, Sequences, FiniteSets, TLC

(***************************************************************************)
(* Bounds of the model.                                                    *)
(***************************************************************************)
\* Short pages carry 0..MaxShortRows rows, or limit-1 rows.
MaxShortRows == 1
\* Calls of analyze in one run of the page.
MaxBatches == 2
\* Back clicks and edits of the URL fragment in one run of the page.
MaxNav == 1
\* Fetches of earlier lookups that are still answered once a navigation event
\* or a new lookup has come; the others stay pending for ever.  Those that
\* are answered are answered before the fetches of a later lookup.
MaxLate == 1
\* Calls of saveRecentLookup in one run of SpecRecent.
MaxSaves == 7
\* Active and closed positions of a snapshot handed to computeMetrics.
MaxActive == 2
MaxClosed == 3
\* Positions handed to renderAllocationByPosition.
MaxItems == 4
\* Markets of the positions handed to renderWinnersLosers.
MaxMarkets == 6
\* Days on which the trades handed to renderTradeVolume were made.
MaxDays == 8

(***************************************************************************)
(* Arrays of rows.  A row is named by an integer (the server's row number  *)
(* for the address).  An array is kept as the sequence of its maximal runs *)
(* of consecutive row numbers, [lo, hi], in array order: <<[1,500]>> is    *)
(* the array 1, 2, ..., 500.  The encoding is one-to-one, so equality of   *)
(* encodings is equality of arrays.                                        *)
(***************************************************************************)
Range(lo, n) == IF n <= 0 THEN <<>> ELSE <<[lo |-> lo, hi |-> lo + n - 1]>>

RECURSIVE length(_)
length(a) == IF a = <<>> THEN 0 ELSE (a[1].hi - a[1].lo + 1) + length(Tail(a))

\* Array.prototype.concat: the rows of a, then the rows of b.
ArrayConcat(a, b) ==
    IF a = <<>> THEN b
    ELSE IF b = <<>> THEN a
    ELSE IF a[Len(a)].hi + 1 = b[1].lo
         THEN SubSeq(a, 1, Len(a) - 1)
                \o <<[lo |-> a[Len(a)].lo, hi |-> b[1].hi]>>
                \o Tail(b)
         ELSE a \o b

\* null or undefined where an array is expected: no array has this encoding.
NotAnArray == <<[lo |-> 0, hi |-> -1]>>
IsArray(a) == a # NotAnArray

(***************************************************************************)
(* Constants of the program.                                               *)
(***************************************************************************)
ENDPOINT_CONFIG ==
    [ positions       |-> [limit |-> 500,   maxOffset |-> 100000],
      closedPositions |-> [limit |-> 50,    maxOffset |-> 100000],
      trades          |-> [limit |-> 10000, maxOffset |-> 10000],
      activity        |-> [limit |-> 500,   maxOffset |-> 10000] ]

CoreEndpoints == {"positions", "closedPositions", "trades", "activity"}

\* The addresses a lookup is made for (both match ADDR_RE).
Addresses == {"0xA", "0xB"}

(***************************************************************************)
(* The upstream server.  A response is a network outcome, the HTTP ok      *)
(* flag and a JSON body.  A body is a bare array, or an object that may    *)
(* hold an array under data, results or positions, or null.                *)
(***************************************************************************)
NotArray == [isArray |-> FALSE, rows |-> <<>>]
AnArray(rows) == [isArray |-> TRUE, rows |-> rows]

NullBody ==
    [isNull |-> TRUE, self |-> NotArray, data |-> NotArray,
     results |-> NotArray, positions |-> NotArray]
EmptyObject == [NullBody EXCEPT !.isNull = FALSE]
BareArray(rows) == [EmptyObject EXCEPT !.self = AnArray(rows)]
UnderData(rows) == [EmptyObject EXCEPT !.data = AnArray(rows)]
UnderResults(rows) == [EmptyObject EXCEPT !.results = AnArray(rows)]
UnderPositions(rows) == [EmptyObject EXCEPT !.positions = AnArray(rows)]

\* The server's rows for an address start at a base of the address's own.
RowBase(address) == IF address = "0xA" THEN 0 ELSE 1000000

\* The n rows the server returns for a request at an offset.
ServerRows(address, off, n) == Range(RowBase(address) + off + 1, n)

\* The server honours limit: a page holds at most limit rows.
PageLengths(limit) == (0..MaxShortRows) \cup {limit - 1, limit}

Bodies(address, off, limit) ==
    {NullBody, EmptyObject}
      \cup { BareArray(ServerRows(address, off, n)) : n \in PageLengths(limit) }
      \cup { UnderData(ServerRows(address, off, n)) : n \in PageLengths(limit) }
      \cup { UnderResults(ServerRows(address, off, n)) : n \in PageLengths(limit) }
      \cup { UnderPositions(ServerRows(address, off, n)) : n \in PageLengths(limit) }

NetworkError == [net |-> "error", ok |-> FALSE, body |-> NullBody]
HttpError(body) == [net |-> "ok", ok |-> FALSE, body |-> body]
HttpOk(body) == [net |-> "ok", ok |-> TRUE, body |-> body]

Responses(address, off, limit) ==
    {NetworkError}
      \cup { HttpError(b) : b \in {NullBody, BareArray(ServerRows(address, off, limit))} }
      \cup { HttpOk(b) : b \in Bodies(address, off, limit) }

(***************************************************************************)
(* fetchJSON: throws on a network error and on a non-OK status, otherwise  *)
(* returns the body.                                                       *)
(***************************************************************************)
fetchJSON_noStatusCheck(res) ==
    IF res.net = "error" THEN [threw |-> TRUE, value |-> NullBody]
    ELSE [threw |-> FALSE, value |-> res.body]

fetchJSON(res) ==
    IF res.net = "error" THEN [threw |-> TRUE, value |-> NullBody]
    ELSE IF ~res.ok THEN [threw |-> TRUE, value |-> NullBody]
    ELSE [threw |-> FALSE, value |-> res.body]

(***************************************************************************)
(* unwrapArray: the array of a body, or null (NotArray).                   *)
(***************************************************************************)
unwrapArray(data) ==
    IF data.self.isArray THEN data.self
    ELSE IF ~data.isNull /\ data.data.isArray THEN data.data
    ELSE IF ~data.isNull /\ data.results.isArray THEN data.results
    ELSE IF ~data.isNull /\ data.positions.isArray THEN data.positions
    ELSE NotArray

\* A response that fetchJSON throws on, and one that carries a page.
IsFailure(res) == res.net = "error" \/ (res.net = "ok" /\ ~res.ok)
IsPage(res) == res.net = "ok" /\ res.ok /\ unwrapArray(res.body).isArray
PageRows(res) == unwrapArray(res.body).rows

(***************************************************************************)
(* fetchAllPages.  The state of one call: its locals, the path it awaits   *)
(* and what it returned.  fetchAllPages_call runs to the first await,      *)
(* fetchAllPages_resume runs from one await to the next (or to return).    *)
(***************************************************************************)
NoPath == [basePath |-> "", user |-> "", limit |-> 0, offset |-> -1]
Pending == [status |-> "pending", value |-> <<>>]
Fulfilled(v) == [status |-> "fulfilled", value |-> v]
Rejected == [status |-> "rejected", value |-> <<>>]

\* while (offset <= maxOffset)
WhileCond_twiceMax(off, maxOffset) == off <= 2 * maxOffset
WhileCond(off, maxOffset) == off <= maxOffset

\* if (batch.length < limit) break
IsLastPage_emptyOnly(batch, limit) == length(batch) = 0
IsLastPage(batch, limit) == length(batch) < limit

\* all = all.concat(batch)
Accumulate_prepend(all, batch) == ArrayConcat(batch, all)
Accumulate(all, batch) == ArrayConcat(all, batch)

\* offset += limit
Advance_offByOne(off, limit) == off + limit + 1
Advance(off, limit) == off + limit

\* return all
Return(f) == [f EXCEPT !.pc = "returned", !.path = NoPath,
                       !.promise = Fulfilled(f.all)]

\* The loop head: issue the next request, or leave the loop.
LoopHead(f) ==
    IF WhileCond(f.offset, f.maxOffset)
    THEN [f EXCEPT !.pc = "await",
                   !.path = [basePath |-> f.basePath, user |-> f.address,
                             limit |-> f.limit, offset |-> f.offset]]
    ELSE Return(f)

fetchAllPages_call(basePath, address, config) ==
    LoopHead([basePath |-> basePath, address |-> address,
              limit |-> config.limit, maxOffset |-> config.maxOffset,
              all |-> <<>>, offset |-> 0,
              pc |-> "await", path |-> NoPath, promise |-> Pending])

fetchAllPages_resume_shapeThrows(f, res) ==
    LET raw == fetchJSON(res) IN
    IF raw.threw THEN Return(f)
    ELSE LET batch == unwrapArray(raw.value) IN
         IF ~batch.isArray
         THEN [f EXCEPT !.pc = "returned", !.path = NoPath, !.promise = Rejected]
         ELSE LET g == [f EXCEPT !.all = Accumulate(f.all, batch.rows)] IN
              IF IsLastPage(batch.rows, f.limit) THEN Return(g)
              ELSE LoopHead([g EXCEPT !.offset = Advance(f.offset, f.limit)])

fetchAllPages_resume_emptyIsError(f, res) ==
    LET raw == fetchJSON(res) IN
    IF raw.threw THEN Return(f)
    ELSE LET batch == unwrapArray(raw.value) IN
         IF ~batch.isArray THEN Return(f)
         ELSE IF batch.rows = <<>> THEN Return([f EXCEPT !.all = <<>>])
         ELSE LET g == [f EXCEPT !.all = Accumulate(f.all, batch.rows)] IN
              IF IsLastPage(batch.rows, f.limit) THEN Return(g)
              ELSE LoopHead([g EXCEPT !.offset = Advance(f.offset, f.limit)])

fetchAllPages_resume(f, res) ==
    LET raw == fetchJSON(res) IN
    IF raw.threw THEN Return(f)
    ELSE LET batch == unwrapArray(raw.value) IN
         IF ~batch.isArray THEN Return(f)
         ELSE LET g == [f EXCEPT !.all = Accumulate(f.all, batch.rows)] IN
              IF IsLastPage(batch.rows, f.limit) THEN Return(g)
              ELSE LoopHead([g EXCEPT !.offset = Advance(f.offset, f.limit)])

(***************************************************************************)
(* State.                                                                  *)
(***************************************************************************)
VARIABLES
    \* SpecPages
    pager,      \* the fetchAllPages call under study
    reqCount,   \* history: requests issued by the call
    answered,   \* history: responses delivered to the call
    received,   \* history: rows of the pages delivered, in delivery order
    lastRes,    \* history: the response delivered last
    \* Spec: the page's globals
    lastData, chartInstances, activePositions, closedPositionsData,
    activePage, closedPage,
    \* Spec: the document and the window
    visible,            \* the screens not carrying the class hidden
    entryError,         \* entryError.textContent
    addressInput,       \* addressInput.value
    loadBtnDisabled,    \* loadBtn.disabled
    dom,                \* what the dashboard's panels show on the screen
    hash,               \* window.location.hash, without the #
    hashEvents,         \* hashchange events queued, not yet handled
    recent,             \* localStorage['polyfolio-recent']
    \* Spec: the calls of analyze
    batches,            \* the closure of each call and its promises
    nBatches,           \* calls of analyze so far
    navCount,           \* history: back clicks and fragment edits so far
    \* The functions studied alone: a call's arguments and what it returned
    input, output

fnVars == <<input, output>>
pagerVars == <<pager, reqCount, answered, received, lastRes>>
pageVars == <<lastData, chartInstances, activePositions, closedPositionsData,
              activePage, closedPage, visible, entryError, addressInput,
              loadBtnDisabled, dom, hash, hashEvents, recent>>
appVars == <<lastData, chartInstances, activePositions, closedPositionsData,
             activePage, closedPage, visible, entryError, addressInput,
             loadBtnDisabled, dom, hash, hashEvents, recent,
             batches, nBatches, navCount>>
vars == <<pager, reqCount, answered, received, lastRes,
          lastData, chartInstances, activePositions, closedPositionsData,
          activePage, closedPage, visible, entryError, addressInput,
          loadBtnDisabled, dom, hash, hashEvents, recent,
          batches, nBatches, navCount, input, output>>

\* No function is called.
NoCall == [fn |-> "none"]

NoResponse == [net |-> "none", ok |-> FALSE, body |-> NullBody]

(***************************************************************************)
(* The page: its globals and its document as one record, so that a handler *)
(* is the composition of the functions it calls, in the order of the code. *)
(***************************************************************************)
PAGE_SIZE == 50

\* Math.ceil(n / PAGE_SIZE)
CeilDivPages(n) == (n + PAGE_SIZE - 1) \div PAGE_SIZE

Screens == {"entry", "loading", "dashboard"}

\* lastData = null, and the record analyze creates.  createdBy is history:
\* the call of analyze that created the record.
NullData ==
    [isNull |-> TRUE, createdBy |-> 0,
     positions |-> <<>>, closedPositions |-> <<>>, trades |-> <<>>,
     activity |-> <<>>, quickValue |-> NullBody, leaderboard |-> NullBody]

FreshData_noTrades(id) ==
    [isNull |-> FALSE, createdBy |-> id,
     positions |-> <<>>, closedPositions |-> <<>>, trades |-> NotAnArray,
     activity |-> <<>>, quickValue |-> NullBody,
     leaderboard |-> BareArray(<<>>)]

FreshData(id) ==
    [isNull |-> FALSE, createdBy |-> id,
     positions |-> <<>>, closedPositions |-> <<>>, trades |-> <<>>,
     activity |-> <<>>, quickValue |-> NullBody,
     leaderboard |-> BareArray(<<>>)]

NoMetrics == [rank |-> 0, activeCount |-> 0, closedCount |-> 0,
              positions |-> <<>>, closedPositions |-> <<>>]
EmptyTable == [skeleton |-> FALSE, empty |-> FALSE,
               list |-> <<>>, page |-> 0, totalPages |-> 0]
EmptyTimeline == [skeleton |-> FALSE, empty |-> FALSE, activity |-> <<>>]

\* The document as served: no panel filled, no skeleton shown.
InitialDom ==
    [dashAddr |-> "", metricsSkeleton |-> FALSE, metrics |-> NoMetrics,
     allocSkeleton |-> FALSE, winnersSkeleton |-> FALSE,
     losersSkeleton |-> FALSE, volumeSkeleton |-> FALSE,
     timeline |-> EmptyTimeline,
     activeTable |-> EmptyTable, closedTable |-> EmptyTable]

Page ==
    [lastData |-> lastData, chartInstances |-> chartInstances,
     activePositions |-> activePositions,
     closedPositionsData |-> closedPositionsData,
     activePage |-> activePage, closedPage |-> closedPage,
     visible |-> visible, entryError |-> entryError,
     addressInput |-> addressInput, loadBtnDisabled |-> loadBtnDisabled,
     dom |-> dom, hash |-> hash, hashEvents |-> hashEvents,
     recent |-> recent]

Commit(p) ==
    /\ lastData' = p.lastData
    /\ chartInstances' = p.chartInstances
    /\ activePositions' = p.activePositions
    /\ closedPositionsData' = p.closedPositionsData
    /\ activePage' = p.activePage
    /\ closedPage' = p.closedPage
    /\ visible' = p.visible
    /\ entryError' = p.entryError
    /\ addressInput' = p.addressInput
    /\ loadBtnDisabled' = p.loadBtnDisabled
    /\ dom' = p.dom
    /\ hash' = p.hash
    /\ hashEvents' = p.hashEvents
    /\ recent' = p.recent

\* The page's variables hold p (in an initial state).
Holds(p) ==
    /\ lastData = p.lastData
    /\ chartInstances = p.chartInstances
    /\ activePositions = p.activePositions
    /\ closedPositionsData = p.closedPositionsData
    /\ activePage = p.activePage
    /\ closedPage = p.closedPage
    /\ visible = p.visible
    /\ entryError = p.entryError
    /\ addressInput = p.addressInput
    /\ loadBtnDisabled = p.loadBtnDisabled
    /\ dom = p.dom
    /\ hash = p.hash
    /\ hashEvents = p.hashEvents
    /\ recent = p.recent

(***************************************************************************)
(* Addresses and the input field.  A string is one of a few texts; what    *)
(* the code does with a text (trim, startsWith, slice, the ADDR_RE test)   *)
(* is tabulated.  "A" and "B" stand for 40 hex characters.                 *)
(***************************************************************************)
InputTexts == {"A", "0xB", "zz"}

ADDR_RE(text) == text \in Addresses

getFullAddressOf(val) ==
    CASE val = "0xA" -> "0xA"
      [] val = "0xB" -> "0xB"
      [] val = "A"   -> "0xA"
      [] val = "B"   -> "0xB"
      [] val = "zz"  -> "0xzz"
      [] OTHER       -> "0x"

\* address.slice(2)
Slice2(address) == IF address = "0xA" THEN "A" ELSE "B"

getFullAddress(p) == getFullAddressOf(p.addressInput)

validateInput(p) == [p EXCEPT !.loadBtnDisabled = ~ADDR_RE(getFullAddress(p))]

getAddressFromURL_noTest(p) == p.hash

getAddressFromURL(p) == IF ADDR_RE(p.hash) THEN p.hash ELSE "null"

\* window.location.hash = h: a change of the fragment queues a hashchange.
SetHash(p, h) ==
    [p EXCEPT !.hash = h,
              !.hashEvents = IF h = p.hash THEN @ ELSE @ + 1]

updateURL(p, address) == SetHash(p, address)

(***************************************************************************)
(* Recent lookups.                                                         *)
(***************************************************************************)
MAX_RECENT == 5

RECURSIVE Without(_, _)
Without(list, x) ==
    IF list = <<>> THEN <<>>
    ELSE IF Head(list) = x THEN Without(Tail(list), x)
    ELSE <<Head(list)>> \o Without(Tail(list), x)

saveRecentLookup_noFilter(p, address) ==
    LET unshifted == <<address>> \o p.recent IN
    [p EXCEPT !.recent = IF Len(unshifted) > MAX_RECENT
                         THEN SubSeq(unshifted, 1, MAX_RECENT)
                         ELSE unshifted]

\* getRecentLookups().filter(...), unshift, truncation, setItem (the storage
\* accepts the write).
saveRecentLookup(p, address) ==
    LET unshifted == <<address>> \o Without(p.recent, address) IN
    [p EXCEPT !.recent = IF Len(unshifted) > MAX_RECENT
                         THEN SubSeq(unshifted, 1, MAX_RECENT)
                         ELSE unshifted]

(***************************************************************************)
(* Screens, skeletons, charts, tables, timeline, metrics.                  *)
(***************************************************************************)
\* The three screens are hidden but the one named.  The panels of a hidden
\* dashboard show nothing on the screen, and analyze puts every panel under
\* its skeleton before it shows the dashboard again.
showScreen_keepsOthers(p, screen) ==
    [p EXCEPT !.visible = @ \cup {screen},
              !.dom = IF screen = "dashboard" THEN @ ELSE InitialDom]

showScreen(p, screen) ==
    [p EXCEPT !.visible = {screen},
              !.dom = IF screen = "dashboard" THEN @ ELSE InitialDom]

destroyCharts_keeps(p) == p

destroyCharts(p) == [p EXCEPT !.chartInstances = <<>>]

showMetricSkeletons(p) ==
    [p EXCEPT !.dom.metricsSkeleton = TRUE, !.dom.metrics = NoMetrics]
clearMetricSkeletons(p) == [p EXCEPT !.dom.metricsSkeleton = FALSE]
showAllocSkeleton(p) == [p EXCEPT !.dom.allocSkeleton = TRUE]
clearAllocSkeleton(p) == [p EXCEPT !.dom.allocSkeleton = FALSE]

showChartSkeleton(p, canvas) ==
    CASE canvas = "winners" -> [p EXCEPT !.dom.winnersSkeleton = TRUE]
      [] canvas = "losers"  -> [p EXCEPT !.dom.losersSkeleton = TRUE]
      [] OTHER              -> [p EXCEPT !.dom.volumeSkeleton = TRUE]

clearChartSkeleton(p, canvas) ==
    CASE canvas = "winners" -> [p EXCEPT !.dom.winnersSkeleton = FALSE]
      [] canvas = "losers"  -> [p EXCEPT !.dom.losersSkeleton = FALSE]
      [] OTHER              -> [p EXCEPT !.dom.volumeSkeleton = FALSE]

showTimelineSkeleton(p) ==
    [p EXCEPT !.dom.timeline =
        [skeleton |-> TRUE, empty |-> FALSE, activity |-> <<>>]]

\* The empty state, the rows and the pagination are hidden or removed:
\* the table shows its skeleton and nothing else.
showTableSkeleton(p, table) ==
    IF table = "active"
    THEN [p EXCEPT !.dom.activeTable = [EmptyTable EXCEPT !.skeleton = TRUE]]
    ELSE [p EXCEPT !.dom.closedTable = [EmptyTable EXCEPT !.skeleton = TRUE]]

clearTableSkeleton(p, table) ==
    IF table = "active"
    THEN [p EXCEPT !.dom.activeTable.skeleton = FALSE]
    ELSE [p EXCEPT !.dom.closedTable.skeleton = FALSE]

\* A chart on a canvas, with the arrays it was drawn from.
Chart(canvas, positions, closedPositions, trades) ==
    [canvas |-> canvas, positions |-> positions,
     closedPositions |-> closedPositions, trades |-> trades]

renderAllocationByPosition(p, positions) ==
    [p EXCEPT !.chartInstances =
        Append(@, Chart("alloc", positions, <<>>, <<>>))]

renderWinnersLosers(p, positions, closedPositions) ==
    [p EXCEPT !.chartInstances =
        @ \o << Chart("winners", positions, closedPositions, <<>>),
                Chart("losers", positions, closedPositions, <<>>) >>]

renderTradeVolume(p, trades) ==
    [p EXCEPT !.chartInstances =
        Append(@, Chart("volume", <<>>, <<>>, trades))]

renderTimeline(p, activity) ==
    IF length(activity) = 0
    THEN [p EXCEPT !.dom.timeline =
            [skeleton |-> FALSE, empty |-> TRUE, activity |-> <<>>]]
    ELSE [p EXCEPT !.dom.timeline =
            [skeleton |-> FALSE, empty |-> FALSE, activity |-> activity]]

\* The table shows page `page` of the list, sorted; an empty list shows the
\* empty state and leaves the page index alone.
renderActiveTable(p, positions) ==
    IF length(positions) = 0
    THEN [p EXCEPT !.dom.activeTable.list = <<>>,
                   !.dom.activeTable.empty = TRUE]
    ELSE LET totalPages == CeilDivPages(length(positions))
             page == IF p.activePage > totalPages THEN totalPages
                     ELSE p.activePage
         IN [p EXCEPT !.activePage = page,
                      !.dom.activeTable.empty = FALSE,
                      !.dom.activeTable.list = positions,
                      !.dom.activeTable.page = page,
                      !.dom.activeTable.totalPages = totalPages]

renderClosedTable(p, closedPositions) ==
    IF length(closedPositions) = 0
    THEN [p EXCEPT !.dom.closedTable.list = <<>>,
                   !.dom.closedTable.empty = TRUE]
    ELSE LET totalPages == CeilDivPages(length(closedPositions))
             page == IF p.closedPage > totalPages THEN totalPages
                     ELSE p.closedPage
         IN [p EXCEPT !.closedPage = page,
                      !.dom.closedTable.empty = FALSE,
                      !.dom.closedTable.list = closedPositions,
                      !.dom.closedTable.page = page,
                      !.dom.closedTable.totalPages = totalPages]

\* computeMetrics, as far as the flow is concerned: which arrays the
\* numbers are computed from, the counts and the rank.
computeMetrics(data) ==
    [rank |-> IF data.leaderboard.self.isArray
                 /\ data.leaderboard.self.rows # <<>>
              THEN data.leaderboard.self.rows[1].lo ELSE 0,
     activeCount |-> length(data.positions),
     closedCount |-> length(data.closedPositions),
     positions |-> data.positions,
     closedPositions |-> data.closedPositions]

renderMetrics(p, m) == [p EXCEPT !.dom.metrics = m]

(***************************************************************************)
(* analyze.  A call's closure: its address, its flags, the state of the    *)
(* five promises it waits for, and whether the /value fetch is pending.    *)
(* abandoned, failed and the two render counts are history; lost names the *)
(* fetches that will never be answered.                                    *)
(***************************************************************************)
Settled5 == {"positions", "closedPositions", "trades", "activity", "leaderboard"}

InvalidMsg == "Invalid Ethereum address format."
FailedMsg == "Failed to load portfolio. Check the address and try again."

IdleBatch ==
    [address |-> "", promises |-> [e \in Settled5 |-> "idle"],
     valuePending |-> FALSE,
     positionsReady |-> FALSE, closedReady |-> FALSE,
     leaderboardReady |-> FALSE, finished |-> FALSE,
     lost |-> {}, abandoned |-> FALSE, failed |-> {},
     metricsRenders |-> 0, winnersLosersRenders |-> 0]

\* The fetches are fired: every promise is pending.
NewBatch(address) ==
    [IdleBatch EXCEPT !.address = address,
                      !.promises = [e \in Settled5 |-> "pending"],
                      !.valuePending = TRUE]

Fetches == Settled5 \cup {"value"}

IsPending(b, e) ==
    IF e = "value" THEN b.valuePending ELSE b.promises[e] = "pending"

InFlight(b) == \E e \in Fetches : IsPending(b, e)

\* analyze, up to the first fetch.
analyze(p, address, id) ==
    LET p1 == [p EXCEPT !.dom.dashAddr = address]
        p2 == destroyCharts(p1)
        p3 == [p2 EXCEPT !.lastData = FreshData(id),
                         !.activePositions = <<>>,
                         !.closedPositionsData = <<>>]
        p4 == showMetricSkeletons(p3)
        p5 == showAllocSkeleton(p4)
        p6 == showChartSkeleton(p5, "winners")
        p7 == showChartSkeleton(p6, "losers")
        p8 == showChartSkeleton(p7, "volume")
        p9 == showTimelineSkeleton(p8)
        p10 == showTableSkeleton(p9, "active")
        p11 == showTableSkeleton(p10, "closed")
    IN showScreen(p11, "dashboard")

\* The closure's two guarded renderers.  c is the page and the closure.
tryRenderMetrics_noLeaderboard(c) ==
    IF ~c.b.positionsReady \/ ~c.b.closedReady THEN c
    ELSE [p |-> renderMetrics(clearMetricSkeletons(c.p),
                              computeMetrics(c.p.lastData)),
          b |-> [c.b EXCEPT !.metricsRenders = @ + 1]]

tryRenderMetrics(c) ==
    IF ~c.b.positionsReady \/ ~c.b.closedReady \/ ~c.b.leaderboardReady
    THEN c
    ELSE [p |-> renderMetrics(clearMetricSkeletons(c.p),
                              computeMetrics(c.p.lastData)),
          b |-> [c.b EXCEPT !.metricsRenders = @ + 1]]

tryRenderWinnersLosers(c) ==
    IF ~c.b.positionsReady \/ ~c.b.closedReady THEN c
    ELSE LET p1 == clearChartSkeleton(c.p, "winners")
             p2 == clearChartSkeleton(p1, "losers")
             p3 == IF length(p2.lastData.positions) # 0
                      \/ length(p2.lastData.closedPositions) # 0
                   THEN renderWinnersLosers(p2, p2.lastData.positions,
                                            p2.lastData.closedPositions)
                   ELSE p2
         IN [p |-> p3,
             b |-> [c.b EXCEPT !.winnersLosersRenders = @ + 1]]

\* The continuations.  With lastData = null the first statement of each
\* throws a TypeError and the continuation ends there.
positionsThen(c, positions) ==
    IF c.p.lastData.isNull THEN c
    ELSE LET p1 == [c.p EXCEPT !.lastData.positions = positions]
             b1 == [c.b EXCEPT !.positionsReady = TRUE]
             p2 == clearAllocSkeleton(p1)
             p3 == IF length(positions) # 0
                   THEN renderAllocationByPosition(p2, positions) ELSE p2
             p4 == [p3 EXCEPT !.activePositions = positions,
                              !.activePage = 1]
             p5 == clearTableSkeleton(p4, "active")
             p6 == renderActiveTable(p5, p5.activePositions)
         IN tryRenderWinnersLosers(tryRenderMetrics([p |-> p6, b |-> b1]))

closedThen(c, closedPositions) ==
    IF c.p.lastData.isNull THEN c
    ELSE LET p1 == [c.p EXCEPT !.lastData.closedPositions = closedPositions]
             b1 == [c.b EXCEPT !.closedReady = TRUE]
             p2 == [p1 EXCEPT !.closedPositionsData = closedPositions,
                              !.closedPage = 1]
             p3 == clearTableSkeleton(p2, "closed")
             p4 == renderClosedTable(p3, p3.closedPositionsData)
         IN tryRenderWinnersLosers(tryRenderMetrics([p |-> p4, b |-> b1]))

tradesThen_afterPositions(c, trades) ==
    IF c.p.lastData.isNull THEN c
    ELSE LET p1 == [c.p EXCEPT !.lastData.trades = trades] IN
         IF ~c.b.positionsReady THEN [c EXCEPT !.p = p1]
         ELSE [c EXCEPT !.p = renderTradeVolume(
                                 clearChartSkeleton(p1, "volume"), trades)]

tradesThen(c, trades) ==
    IF c.p.lastData.isNull THEN c
    ELSE LET p1 == [c.p EXCEPT !.lastData.trades = trades]
             p2 == clearChartSkeleton(p1, "volume")
         IN [c EXCEPT !.p = renderTradeVolume(p2, trades)]

activityThen_replacesSnapshot(c, activity) ==
    IF c.p.lastData.isNull THEN c
    ELSE LET p1 == [c.p EXCEPT !.lastData =
                        [FreshData(c.p.lastData.createdBy)
                            EXCEPT !.activity = activity]]
         IN [c EXCEPT !.p = renderTimeline(p1, activity)]

activityThen(c, activity) ==
    IF c.p.lastData.isNull THEN c
    ELSE LET p1 == [c.p EXCEPT !.lastData.activity = activity]
         IN [c EXCEPT !.p = renderTimeline(p1, activity)]

leaderboardThen(c, leaderboard) ==
    IF c.p.lastData.isNull THEN c
    ELSE tryRenderMetrics(
            [p |-> [c.p EXCEPT !.lastData.leaderboard = leaderboard],
             b |-> [c.b EXCEPT !.leaderboardReady = TRUE]])

\* fetchJSON('/value...').then(v => { lastData.quickValue = v }).catch(() => {})
valueThen(c, raw) ==
    IF raw.threw \/ c.p.lastData.isNull THEN c
    ELSE [c EXCEPT !.p.lastData.quickValue = raw.value]

\* .catch(() => [])
CatchEmpty(promise, empty) ==
    IF promise.status = "rejected" THEN Fulfilled(empty) ELSE promise

\* After Promise.allSettled of the five promises.  gtag is the page's own
\* analytics stub: it returns.
analyzeTail(c) ==
    LET allFailed == \A e \in Settled5 : c.b.promises[e] = "rejected" IN
    IF allFailed
    THEN [p |-> [showScreen(c.p, "entry") EXCEPT !.entryError = FailedMsg],
          b |-> [c.b EXCEPT !.finished = TRUE]]
    ELSE [c EXCEPT !.b.finished = TRUE]

\* The reactions to one of the five promises settling: the continuation
\* attached to it, then (once all five have settled) the rest of analyze,
\* all before the next event is handled.
AfterSettle(c) ==
    IF \A e \in Settled5 : c.b.promises[e] \in {"fulfilled", "rejected"}
    THEN analyzeTail(c) ELSE c

(***************************************************************************)
(* What the server may do to one endpoint's fetch in the page: fail at     *)
(* once, or return a full page and then a short one.                       *)
(***************************************************************************)
Scripts(address, e) ==
    { <<NetworkError>>,
      <<HttpOk(UnderData(ServerRows(address, 0, ENDPOINT_CONFIG[e].limit))),
        HttpOk(BareArray(ServerRows(address, ENDPOINT_CONFIG[e].limit, 1)))>> }

LeaderboardResponses(address) ==
    { NetworkError, HttpOk(BareArray(ServerRows(address, 0, 1))) }

ValueResponses == { NetworkError, HttpOk(EmptyObject) }

\* fetchAllPages from its call to its return, the server following a script.
RECURSIVE fetchAllPages(_, _)
fetchAllPages(f, script) ==
    IF f.pc = "returned" \/ script = <<>> THEN f
    ELSE fetchAllPages(fetchAllPages_resume(f, Head(script)), Tail(script))

(***************************************************************************)
(* Spec: the page.                                                         *)
(***************************************************************************)
BatchIds == 1..MaxBatches
HashTexts == {"", "0xA", "0xB", "zz"}

\* History: a navigation event leaves the lookups in flight abandoned (a
\* hash change to an address leaves those for another address abandoned).
Abandon(bs, keepAddress) ==
    [i \in BatchIds |->
        IF InFlight(bs[i]) /\ bs[i].address # keepAddress
        THEN [bs[i] EXCEPT !.abandoned = TRUE] ELSE bs[i]]

\* The fetches of the lookups so far that may still be answered.
Answerable(bs) ==
    { x \in BatchIds \X Fetches :
        IsPending(bs[x[1]], x[2]) /\ x[2] \notin bs[x[1]].lost }

\* The sets of at most MaxLate of them.
LateSets(bs) ==
    { keep \in SUBSET Answerable(bs) : Cardinality(keep) <= MaxLate }

\* All of them but those in keep will never be answered.  A lookup none of
\* whose fetches will be answered can do nothing more: its closure is
\* dropped.  Of a lookup that will still be answered, the closure keeps what
\* its continuations can still read: the flags if a guarded renderer will
\* run, the promises if Promise.allSettled can still resolve.
Forget(b, kept) ==
    LET lostNow == { e \in Fetches : IsPending(b, e) /\ e \notin kept }
        tail == lostNow \cap Settled5 = {}
        guarded == kept \cap {"positions", "closedPositions", "leaderboard"} # {}
    IN [b EXCEPT
          !.promises = [e \in Settled5 |->
                          IF tail \/ e \in kept THEN @[e] ELSE "idle"],
          !.valuePending = "value" \in kept,
          !.positionsReady = guarded /\ @,
          !.closedReady = guarded /\ @,
          !.leaderboardReady = guarded /\ @,
          !.lost = {}, !.failed = {}, !.finished = FALSE,
          !.metricsRenders = 0, !.winnersLosersRenders = 0]

Lose(bs, keep) ==
    [i \in BatchIds |->
        LET kept == { e \in Fetches : <<i, e>> \in keep } IN
        IF kept # {} THEN Forget(bs[i], kept) ELSE IdleBatch]

\* The page as loaded, before initFromURL.
LoadedPage(h, disabled) ==
    [lastData |-> NullData, chartInstances |-> <<>>,
     activePositions |-> <<>>, closedPositionsData |-> <<>>,
     activePage |-> 1, closedPage |-> 1,
     visible |-> {"entry"}, entryError |-> "",
     addressInput |-> "", loadBtnDisabled |-> disabled,
     dom |-> InitialDom, hash |-> h, hashEvents |-> 0, recent |-> <<>>]

NoBatches == [i \in BatchIds |-> IdleBatch]

\* initFromURL
Init ==
    /\ pager = Return(fetchAllPages_call("trades", "0xA", ENDPOINT_CONFIG.trades))
    /\ reqCount = 0 /\ answered = 0 /\ received = <<>> /\ lastRes = NoResponse
    /\ input = NoCall /\ output = NoCall
    /\ navCount = 0
    /\ \E h \in {"", "0xA"}, disabled \in BOOLEAN :
        LET p0 == LoadedPage(h, disabled)
            address == getAddressFromURL(p0)
        IN IF address # "null"
           THEN /\ Holds(analyze(validateInput(
                        [p0 EXCEPT !.addressInput = Slice2(address)]),
                        address, 1))
                /\ batches = [NoBatches EXCEPT ![1] = NewBatch(address)]
                /\ nBatches = 1
           ELSE /\ Holds(p0)
                /\ batches = NoBatches
                /\ nBatches = 0

\* The browser dispatches a queued hashchange before the user acts again;
\* the network's answers may come before it.
UserCanAct == hashEvents = 0

\* addressInput 'input' listener
TypeInput(val) ==
    /\ UserCanAct
    /\ "entry" \in visible
    /\ Commit(validateInput([Page EXCEPT !.addressInput = val,
                                         !.entryError = ""]))
    /\ UNCHANGED <<batches, nBatches, navCount>>
    /\ UNCHANGED <<pagerVars, fnVars>>

\* loadBtn 'click' listener
LoadClick ==
    /\ UserCanAct
    /\ "entry" \in visible
    /\ ~loadBtnDisabled
    /\ LET addr == getFullAddress(Page) IN
       IF ~ADDR_RE(addr)
       THEN /\ Commit([Page EXCEPT !.entryError = InvalidMsg])
            /\ UNCHANGED <<batches, nBatches, navCount>>
       ELSE /\ nBatches < MaxBatches
            /\ LET p1 == [Page EXCEPT !.entryError = ""]
                   p2 == saveRecentLookup(p1, addr)
                   p3 == updateURL(p2, addr)
               IN Commit(analyze(p3, addr, nBatches + 1))
            /\ \E keep \in LateSets(batches) :
                 batches' = [Lose(batches, keep)
                                EXCEPT ![nBatches + 1] = NewBatch(addr)]
            /\ nBatches' = nBatches + 1
            /\ UNCHANGED navCount
    /\ UNCHANGED <<pagerVars, fnVars>>

\* backBtn 'click' listener
BackClick ==
    /\ UserCanAct
    /\ "dashboard" \in visible
    /\ navCount < MaxNav
    /\ LET p1 == destroyCharts(Page)
           p2 == [p1 EXCEPT !.activePositions = <<>>,
                            !.closedPositionsData = <<>>,
                            !.lastData = NullData]
           p3 == SetHash(p2, "")
       IN Commit(showScreen(p3, "entry"))
    /\ \E keep \in LateSets(batches) :
         batches' = Lose(Abandon(batches, "none"), keep)
    /\ navCount' = navCount + 1
    /\ UNCHANGED nBatches
    /\ UNCHANGED <<pagerVars, fnVars>>

\* The user edits the fragment of the URL.
UserHashChange(h) ==
    /\ UserCanAct
    /\ navCount < MaxNav
    /\ h # hash
    /\ Commit(SetHash(Page, h))
    /\ navCount' = navCount + 1
    /\ UNCHANGED <<batches, nBatches>>
    /\ UNCHANGED <<pagerVars, fnVars>>

\* window 'hashchange' listener
HashChange ==
    /\ hashEvents > 0
    /\ LET p0 == [Page EXCEPT !.hashEvents = @ - 1]
           address == getAddressFromURL(p0)
       IN IF address # "null"
          THEN /\ nBatches < MaxBatches
               /\ Commit(analyze(validateInput(
                            [p0 EXCEPT !.addressInput = Slice2(address)]),
                            address, nBatches + 1))
               /\ \E keep \in LateSets(batches) :
                    batches' = [Lose(Abandon(batches, address), keep)
                                  EXCEPT ![nBatches + 1] = NewBatch(address)]
               /\ nBatches' = nBatches + 1
          ELSE /\ LET p1 == destroyCharts(p0)
                      p2 == [p1 EXCEPT !.activePositions = <<>>,
                                       !.lastData = NullData]
                  IN Commit(showScreen(p2, "entry"))
               /\ \E keep \in LateSets(batches) :
                    batches' = Lose(Abandon(batches, "none"), keep)
               /\ UNCHANGED nBatches
    /\ UNCHANGED navCount
    /\ UNCHANGED <<pagerVars, fnVars>>

\* The continuation attached to endpoint e.
Then(e, c, value) ==
    CASE e = "positions"       -> positionsThen(c, value)
      [] e = "closedPositions" -> closedThen(c, value)
      [] e = "trades"          -> tradesThen(c, value)
      [] e = "activity"        -> activityThen(c, value)
      [] OTHER                 -> leaderboardThen(c, value)

\* Fetch e of lookup id may be answered now.
MayAnswer(id, e) ==
    /\ IsPending(batches[id], e)
    /\ e \notin batches[id].lost
    /\ \A x \in Answerable(batches) : x[1] >= id

\* The closure of an earlier lookup is dropped with its last answer.
Close(id, b) ==
    IF id < nBatches
       /\ \A e \in Fetches : ~IsPending(b, e) \/ e \in b.lost
    THEN IdleBatch ELSE b

\* One of the five promises of call id settles with `promise`.
Settle(id, e, promise, failed) ==
    LET b0 == [batches[id] EXCEPT !.promises[e] = promise.status,
                                  !.failed = IF failed THEN @ \cup {e} ELSE @]
        c0 == [p |-> Page, b |-> b0]
        c1 == IF promise.status = "fulfilled"
              THEN Then(e, c0, promise.value) ELSE c0
        c2 == AfterSettle(c1)
    IN /\ Commit(c2.p)
       /\ batches' = [batches EXCEPT ![id] = Close(id, c2.b)]
       /\ UNCHANGED <<nBatches, navCount>>
       /\ UNCHANGED <<pagerVars, fnVars>>

\* fetchAllPages(...).catch(() => []) of a core endpoint settles.
CoreSettles(id, e) ==
    /\ MayAnswer(id, e)
    /\ \E script \in Scripts(batches[id].address, e) :
        LET call == fetchAllPages(
                        fetchAllPages_call(e, batches[id].address,
                                           ENDPOINT_CONFIG[e]), script)
        IN Settle(id, e, CatchEmpty(call.promise, <<>>),
                  IsFailure(Head(script)))

PositionsSettle == \E id \in BatchIds : CoreSettles(id, "positions")
ClosedSettle == \E id \in BatchIds : CoreSettles(id, "closedPositions")
TradesSettle == \E id \in BatchIds : CoreSettles(id, "trades")
ActivitySettle == \E id \in BatchIds : CoreSettles(id, "activity")

\* fetchJSON('/v1/leaderboard...').catch(() => []) settles.
LeaderboardSettle ==
    \E id \in BatchIds :
        /\ MayAnswer(id, "leaderboard")
        /\ \E res \in LeaderboardResponses(batches[id].address) :
            LET raw == fetchJSON(res)
                promise == IF raw.threw THEN Rejected ELSE Fulfilled(raw.value)
            IN Settle(id, "leaderboard",
                      CatchEmpty(promise, BareArray(<<>>)), FALSE)

\* fetchJSON('/value...') settles.
ValueSettle ==
    \E id \in BatchIds :
        /\ MayAnswer(id, "value")
        /\ \E res \in ValueResponses :
            LET c == valueThen([p |-> Page, b |-> batches[id]], fetchJSON(res))
            IN /\ Commit(c.p)
               /\ batches' = [batches EXCEPT ![id] =
                                Close(id, [c.b EXCEPT !.valuePending = FALSE])]
               /\ UNCHANGED <<nBatches, navCount>>
               /\ UNCHANGED <<pagerVars, fnVars>>

Next ==
    \/ \E val \in InputTexts : TypeInput(val)
    \/ LoadClick
    \/ BackClick
    \/ \E h \in HashTexts : UserHashChange(h)
    \/ HashChange
    \/ PositionsSettle
    \/ ClosedSettle
    \/ TradesSettle
    \/ ActivitySettle
    \/ LeaderboardSettle
    \/ ValueSettle

Spec == Init /\ [][Next]_vars

(***************************************************************************)
(* SpecLookup: one lookup.  The page was opened on an address, analyze has *)
(* fired its fetches, and nothing happens but their answers.               *)
(***************************************************************************)
InitLookup ==
    /\ pager = Return(fetchAllPages_call("trades", "0xA", ENDPOINT_CONFIG.trades))
    /\ reqCount = 0 /\ answered = 0 /\ received = <<>> /\ lastRes = NoResponse
    /\ input = NoCall /\ output = NoCall
    /\ navCount = 0
    /\ nBatches = 1
    /\ \E address \in Addresses :
        /\ Holds(analyze(validateInput(
                [LoadedPage(address, TRUE)
                    EXCEPT !.addressInput = Slice2(address)]), address, 1))
        /\ batches = [NoBatches EXCEPT ![1] = NewBatch(address)]

NextLookup ==
    \/ PositionsSettle
    \/ ClosedSettle
    \/ TradesSettle
    \/ ActivitySettle
    \/ LeaderboardSettle
    \/ ValueSettle

SpecLookup == InitLookup /\ [][NextLookup]_vars

(***************************************************************************)
(* SpecRecent: saveRecentLookup called on any addresses, from an empty     *)
(* storage.  input is the history of the addresses saved, oldest first.    *)
(***************************************************************************)
\* The page open on the entry screen, nothing requested.
IdlePage ==
    /\ pager = Return(fetchAllPages_call("trades", "0xA", ENDPOINT_CONFIG.trades))
    /\ reqCount = 0 /\ answered = 0 /\ received = <<>> /\ lastRes = NoResponse
    /\ Holds(LoadedPage("", TRUE))
    /\ batches = NoBatches /\ nBatches = 0 /\ navCount = 0

RecentAddresses == {"0x1", "0x2", "0x3", "0x4", "0x5", "0x6"}

InitRecent ==
    /\ IdlePage
    /\ input = <<>> /\ output = NoCall

Save(address) ==
    /\ Len(input) < MaxSaves
    /\ Commit(saveRecentLookup(Page, address))
    /\ input' = Append(input, address)
    /\ UNCHANGED <<pagerVars, batches, nBatches, navCount, output>>

NextRecent == \E address \in RecentAddresses : Save(address)

SpecRecent == InitRecent /\ [][NextRecent]_vars

(***************************************************************************)
(* JavaScript values of the numeric fields of a row: a number, or a field  *)
(* that is absent (undefined) or null.  NaN is what Number makes of an     *)
(* absent field.                                                           *)
(***************************************************************************)
Num(k) == [t |-> "number", n |-> k]
Undefined == [t |-> "undefined", n |-> 0]
Null == [t |-> "null", n |-> 0]
NaN == [t |-> "NaN", n |-> 0]

\* Number(v)
Number(v) ==
    IF v.t = "number" THEN v
    ELSE IF v.t = "null" THEN Num(0)
    ELSE NaN

\* v || d
Or(v, d) == IF v.t \in {"undefined", "null", "NaN"} \/ v = Num(0) THEN d ELSE v

\* a + b
Plus(a, b) == IF a.t = "NaN" \/ b.t = "NaN" THEN NaN ELSE Num(a.n + b.n)

\* a - b
Minus(a, b) == IF a.t = "NaN" \/ b.t = "NaN" THEN NaN ELSE Num(a.n - b.n)

\* a > 0 and a !== 0
GreaterThanZero(a) == a.t = "number" /\ a.n > 0
NotZero(a) == ~(a.t = "number" /\ a.n = 0)

\* a / b for b > 0, as the fraction it is the nearest double of; NaN when
\* the numerator is.
Divide(a, b) ==
    IF a.t = "NaN" THEN [t |-> "NaN", num |-> 0, den |-> 1]
    ELSE [t |-> "number", num |-> a.n, den |-> b.n]

\* The literal 0 where a quotient is expected.
Zero == [t |-> "number", num |-> 0, den |-> 1]

(***************************************************************************)
(* computeMetrics: the numbers.                                            *)
(***************************************************************************)
\* positions.reduce((s, p) => s + Number(p.currentValue || 0), 0)
RECURSIVE totalValue(_)
totalValue(positions) ==
    IF positions = <<>> THEN Num(0)
    ELSE Plus(totalValue(SubSeq(positions, 1, Len(positions) - 1)),
              Number(Or(positions[Len(positions)].currentValue, Num(0))))

\* positions.reduce((s, p) => s + Number(p.cashPnl || 0), 0)
RECURSIVE unrealizedPnl(_)
unrealizedPnl(positions) ==
    IF positions = <<>> THEN Num(0)
    ELSE Plus(unrealizedPnl(SubSeq(positions, 1, Len(positions) - 1)),
              Number(Or(positions[Len(positions)].cashPnl, Num(0))))

\* closedPositions.reduce((s, p) => s + Number(p.realizedPnl || 0), 0)
RECURSIVE realizedPnl(_)
realizedPnl(closedPositions) ==
    IF closedPositions = <<>> THEN Num(0)
    ELSE Plus(realizedPnl(SubSeq(closedPositions, 1, Len(closedPositions) - 1)),
              Number(Or(closedPositions[Len(closedPositions)].realizedPnl,
                        Num(0))))

closedWithPnl(closedPositions) ==
    SelectSeq(closedPositions, LAMBDA p : NotZero(Number(p.realizedPnl)))

wins(closedPositions) ==
    Len(SelectSeq(closedWithPnl(closedPositions),
                  LAMBDA p : GreaterThanZero(Number(p.realizedPnl))))

winRate(closedPositions) ==
    IF Len(closedWithPnl(closedPositions)) > 0
    THEN Divide(Num(wins(closedPositions)),
                Num(Len(closedWithPnl(closedPositions))))
    ELSE Zero

totalPnl(data) ==
    Plus(unrealizedPnl(data.positions), realizedPnl(data.closedPositions))

costBasis_sum(data) ==
    Plus(totalValue(data.positions), unrealizedPnl(data.positions))

costBasis(data) ==
    Minus(totalValue(data.positions), unrealizedPnl(data.positions))

returnPct(data) ==
    IF GreaterThanZero(costBasis(data))
    THEN Divide(totalPnl(data), costBasis(data))
    ELSE Zero

\* The object computeMetrics returns, but for the rank.
Metrics(data) ==
    [fn |-> "computeMetrics",
     totalValue |-> totalValue(data.positions),
     unrealizedPnl |-> unrealizedPnl(data.positions),
     realizedPnl |-> realizedPnl(data.closedPositions),
     returnPct |-> returnPct(data),
     winRate |-> winRate(data.closedPositions),
     activeCount |-> Len(data.positions),
     closedCount |-> Len(data.closedPositions)]

(***************************************************************************)
(* SpecMetrics: computeMetrics applied to any snapshot of at most          *)
(* MaxActive active and MaxClosed closed positions.                        *)
(***************************************************************************)
SeqsUpTo(S, n) == UNION { [1..k -> S] : k \in 0..n }

CurrentValues == {Num(0), Num(3), Undefined}
CashPnls == {Num(-2), Num(1), Undefined}
RealizedPnls == {Num(-1), Num(0), Num(2), Undefined, Null}

Snapshots ==
    [positions : SeqsUpTo([currentValue : CurrentValues, cashPnl : CashPnls],
                          MaxActive),
     closedPositions : SeqsUpTo([realizedPnl : RealizedPnls], MaxClosed)]

InitMetrics ==
    /\ IdlePage
    /\ input \in Snapshots
    /\ output = NoCall

Compute ==
    /\ output = NoCall
    /\ output' = Metrics(input)
    /\ UNCHANGED <<pagerVars, appVars, input>>

NextMetrics == Compute

SpecMetrics == InitMetrics /\ [][NextMetrics]_vars

(***************************************************************************)
(* Allocation chart: the slices of renderAllocationByPosition.  A label is *)
(* the position it names (its index in the input), or "Other (n)".         *)
(***************************************************************************)
ItemLabel(i) == [other |-> FALSE, n |-> i]
OtherLabel(n) == [other |-> TRUE, n |-> n]

\* items.sort((a, b) => b.value - a.value): stable, descending.
RECURSIVE InsertItem(_, _)
InsertItem(list, x) ==
    IF list = <<>> THEN <<x>>
    ELSE IF Head(list).value.n >= x.value.n
         THEN <<Head(list)>> \o InsertItem(Tail(list), x)
         ELSE <<x>> \o list

RECURSIVE sort(_)
sort(items) ==
    IF items = <<>> THEN <<>>
    ELSE InsertItem(sort(SubSeq(items, 1, Len(items) - 1)), items[Len(items)])

\* [...positions].map(...).filter(p => p.value > 0).sort(...)
sorted(positions) ==
    LET mapped == [i \in 1..Len(positions) |->
                      [label |-> ItemLabel(i),
                       value |-> Number(Or(positions[i].currentValue, Num(0)))]]
    IN sort(SelectSeq(mapped, LAMBDA p : GreaterThanZero(p.value)))

\* rest.reduce((s, i) => s + i.value, 0)
RECURSIVE otherValue(_)
otherValue(rest) ==
    IF rest = <<>> THEN Num(0)
    ELSE Plus(otherValue(SubSeq(rest, 1, Len(rest) - 1)), rest[Len(rest)].value)

buildPieData_topMaxSlices(items, maxSlices) ==
    IF Len(items) <= maxSlices
    THEN [fn |-> "buildPieData",
          labels |-> [i \in 1..Len(items) |-> items[i].label],
          values |-> [i \in 1..Len(items) |-> items[i].value]]
    ELSE LET top == SubSeq(items, 1, maxSlices)
             rest == SubSeq(items, maxSlices + 1, Len(items))
         IN [fn |-> "buildPieData",
             labels |-> [i \in 1..Len(top) |-> top[i].label]
                        \o <<OtherLabel(Len(rest))>>,
             values |-> [i \in 1..Len(top) |-> top[i].value]
                        \o <<otherValue(rest)>>]

buildPieData(items, maxSlices) ==
    IF Len(items) <= maxSlices
    THEN [fn |-> "buildPieData",
          labels |-> [i \in 1..Len(items) |-> items[i].label],
          values |-> [i \in 1..Len(items) |-> items[i].value]]
    ELSE LET top == SubSeq(items, 1, maxSlices - 1)
             rest == SubSeq(items, maxSlices, Len(items))
         IN [fn |-> "buildPieData",
             labels |-> [i \in 1..Len(top) |-> top[i].label]
                        \o <<OtherLabel(Len(rest))>>,
             values |-> [i \in 1..Len(top) |-> top[i].value]
                        \o <<otherValue(rest)>>]

(***************************************************************************)
(* SpecAllocation: the slices built from any list of at most MaxItems      *)
(* positions, for the cap of the call (14) and for smaller ones.  A        *)
(* position's currentValue is an amount of money held: absent, 0 or        *)
(* positive.                                                               *)
(***************************************************************************)
PieValues == {Undefined, Num(0), Num(1), Num(2), Num(3)}
MaxSlices == {1, 2, 3, 14}

InitAllocation ==
    /\ IdlePage
    /\ input \in [positions : SeqsUpTo([currentValue : PieValues], MaxItems),
                  maxSlices : MaxSlices]
    /\ output = NoCall

BuildPie ==
    /\ output = NoCall
    /\ output' = buildPieData(sorted(input.positions), input.maxSlices)
    /\ UNCHANGED <<pagerVars, appVars, input>>

NextAllocation == BuildPie

SpecAllocation == InitAllocation /\ [][NextAllocation]_vars

(***************************************************************************)
(* Exports.  What a call of generatePDF or generateExcel did: the alerts   *)
(* it raised and the file it saved (the summary metrics and the rows of    *)
(* the two position tables, in the order written).  Neither function       *)
(* assigns a variable of the page.                                         *)
(***************************************************************************)
\* No chart: chartInstances[0] of an empty list (undefined).
NoChart == Chart("", <<>>, <<>>, <<>>)

NoFile == [saved |-> FALSE, addr |-> "", metrics |-> NoMetrics,
           allocChart |-> NoChart,
           positions |-> <<>>, closedPositions |-> <<>>]

\* const allocChart = chartInstances[0]
allocChart(p) ==
    IF p.chartInstances = <<>> THEN NoChart ELSE p.chartInstances[1]

ReportFile(p) ==
    [saved |-> TRUE, addr |-> p.dom.dashAddr,
     metrics |-> computeMetrics(p.lastData),
     allocChart |-> NoChart,
     positions |-> p.lastData.positions,
     closedPositions |-> p.lastData.closedPositions]

generatePDF_alertFirst(p, jspdf) ==
    IF ~jspdf
    THEN [fn |-> "generatePDF", file |-> NoFile,
          alerts |-> <<"PDF library failed to load. Please refresh and try again.">>]
    ELSE IF p.lastData.isNull
    THEN [fn |-> "generatePDF", alerts |-> <<>>, file |-> NoFile]
    ELSE [fn |-> "generatePDF", alerts |-> <<>>,
          file |-> [ReportFile(p) EXCEPT !.allocChart = allocChart(p)]]

generatePDF(p, jspdf) ==
    IF p.lastData.isNull
    THEN [fn |-> "generatePDF", alerts |-> <<>>, file |-> NoFile]
    ELSE IF ~jspdf
    THEN [fn |-> "generatePDF", file |-> NoFile,
          alerts |-> <<"PDF library failed to load. Please refresh and try again.">>]
    ELSE [fn |-> "generatePDF", alerts |-> <<>>,
          file |-> [ReportFile(p) EXCEPT !.allocChart = allocChart(p)]]

generateExcel(p, XLSX) ==
    IF p.lastData.isNull
    THEN [fn |-> "generateExcel", alerts |-> <<>>, file |-> NoFile]
    ELSE IF ~XLSX
    THEN [fn |-> "generateExcel", file |-> NoFile,
          alerts |-> <<"Excel library failed to load. Please refresh and try again.">>]
    ELSE [fn |-> "generateExcel", alerts |-> <<>>, file |-> ReportFile(p)]

(***************************************************************************)
(* SpecExport: the page on the entry screen, or one lookup in flight, and  *)
(* the two export entries clicked at any moment; the export library loaded *)
(* or not.  input records the page as the export found it.                 *)
(***************************************************************************)
InitExport ==
    \/ InitLookup
    \/ IdlePage /\ input = NoCall /\ output = NoCall

PdfClick ==
    \E jspdf \in BOOLEAN :
        /\ output' = generatePDF(Page, jspdf)
        /\ input' = [fn |-> "generatePDF", library |-> jspdf]
        /\ UNCHANGED <<pagerVars, appVars>>

ExcelClick ==
    \E XLSX \in BOOLEAN :
        /\ output' = generateExcel(Page, XLSX)
        /\ input' = [fn |-> "generateExcel", library |-> XLSX]
        /\ UNCHANGED <<pagerVars, appVars>>

NextExport ==
    \/ PositionsSettle
    \/ ClosedSettle
    \/ TradesSettle
    \/ ActivitySettle
    \/ LeaderboardSettle
    \/ ValueSettle
    \/ PdfClick
    \/ ExcelClick

SpecExport == InitExport /\ [][NextExport]_vars

(***************************************************************************)
(* Winners and losers: the two lists renderWinnersLosers draws.  pnlMap is *)
(* the object's entries in insertion order.                                *)
(***************************************************************************)
\* p.title || 'Unknown'
KeyOf(p) == IF p.title = "" THEN "Unknown" ELSE p.title

\* if (!pnlMap[key]) pnlMap[key] = {...}; pnlMap[key].pnl += amount
AddPnl(map, key, amount) ==
    LET known == \E i \in 1..Len(map) : map[i].title = key
        with == IF known THEN map
                ELSE Append(map, [title |-> key, pnl |-> Num(0)])
    IN [i \in 1..Len(with) |->
          IF with[i].title = key
          THEN [with[i] EXCEPT !.pnl = Plus(@, amount)]
          ELSE with[i]]

RECURSIVE AddActive(_, _)
AddActive(map, positions) ==
    IF positions = <<>> THEN map
    ELSE AddActive(AddPnl(map, KeyOf(Head(positions)),
                          Number(Or(Head(positions).cashPnl, Num(0)))),
                   Tail(positions))

RECURSIVE AddClosed(_, _)
AddClosed(map, closedPositions) ==
    IF closedPositions = <<>> THEN map
    ELSE AddClosed(AddPnl(map, KeyOf(Head(closedPositions)),
                          Number(Or(Head(closedPositions).realizedPnl, Num(0)))),
                   Tail(closedPositions))

pnlMap(positions, closedPositions) ==
    AddClosed(AddActive(<<>>, positions), closedPositions)

allPnl(positions, closedPositions) ==
    SelectSeq(pnlMap(positions, closedPositions), LAMBDA p : NotZero(p.pnl))

\* allPnl.sort((a, b) => b.pnl - a.pnl): stable, descending.
RECURSIVE InsertPnl(_, _)
InsertPnl(list, x) ==
    IF list = <<>> THEN <<x>>
    ELSE IF Head(list).pnl.n >= x.pnl.n
         THEN <<Head(list)>> \o InsertPnl(Tail(list), x)
         ELSE <<x>> \o list

RECURSIVE sortPnl(_)
sortPnl(list) ==
    IF list = <<>> THEN <<>>
    ELSE InsertPnl(sortPnl(SubSeq(list, 1, Len(list) - 1)), list[Len(list)])

\* list.slice(0, 5), list.slice(-5) and list.reverse()
SliceFirst5(list) == SubSeq(list, 1, IF Len(list) < 5 THEN Len(list) ELSE 5)
SliceLast5(list) ==
    SubSeq(list, IF Len(list) < 5 THEN 1 ELSE Len(list) - 4, Len(list))
Reverse(list) == [i \in 1..Len(list) |-> list[Len(list) + 1 - i]]

winners(positions, closedPositions) ==
    SliceFirst5(SelectSeq(sortPnl(allPnl(positions, closedPositions)),
                          LAMBDA p : GreaterThanZero(p.pnl)))

losers_firstFive(positions, closedPositions) ==
    Reverse(SliceFirst5(SelectSeq(sortPnl(allPnl(positions, closedPositions)),
                                  LAMBDA p : p.pnl.n < 0)))

losers(positions, closedPositions) ==
    Reverse(SliceLast5(SelectSeq(sortPnl(allPnl(positions, closedPositions)),
                                 LAMBDA p : p.pnl.n < 0)))

(***************************************************************************)
(* SpecWinners: the lists drawn for any portfolio of at most MaxMarkets    *)
(* markets.  Market m holds no active position, one that gained m, or two  *)
(* that lost m and 1 (one of them without a cashPnl for market 2); it has  *)
(* no closed position or one that lost m.  The last market's rows carry no *)
(* title.                                                                  *)
(***************************************************************************)
Markets == 1..MaxMarkets
MarketTitles == <<"A", "B", "C", "D", "E", "F", "G", "H", "I">>
TitleOf(m) == IF m = MaxMarkets THEN "" ELSE MarketTitles[m]
ActiveOf(m, choice) ==
    IF choice = 1 THEN <<>>
    ELSE IF choice = 2 THEN <<[title |-> TitleOf(m), cashPnl |-> Num(m)]>>
    ELSE <<[title |-> TitleOf(m), cashPnl |-> Num(-m)],
           [title |-> TitleOf(m),
            cashPnl |-> IF m = 2 THEN Undefined ELSE Num(-1)]>>
ClosedOf(m, choice) ==
    IF choice = 1 THEN <<>>
    ELSE <<[title |-> TitleOf(m), realizedPnl |-> Num(-m)]>>

RECURSIVE ActiveRows(_, _)
ActiveRows(choice, m) ==
    IF m > MaxMarkets THEN <<>>
    ELSE ActiveOf(m, choice[m][1]) \o ActiveRows(choice, m + 1)

RECURSIVE ClosedRows(_, _)
ClosedRows(choice, m) ==
    IF m > MaxMarkets THEN <<>>
    ELSE ClosedOf(m, choice[m][2]) \o ClosedRows(choice, m + 1)

InitWinners ==
    /\ IdlePage
    /\ \E choice \in [Markets -> {1, 2, 3} \X {1, 2}] :
        input = [positions |-> ActiveRows(choice, 1),
                 closedPositions |-> ClosedRows(choice, 1)]
    /\ output = NoCall

Draw ==
    /\ output = NoCall
    /\ output' = [fn |-> "renderWinnersLosers",
                  winners |-> winners(input.positions, input.closedPositions),
                  losers |-> losers(input.positions, input.closedPositions)]
    /\ UNCHANGED <<pagerVars, appVars, input>>

NextWinners == Draw

SpecWinners == InitWinners /\ [][NextWinners]_vars

(***************************************************************************)
(* Trade volume: the daily series of renderTradeVolume and its moving      *)
(* average.  A day's key, the first ten characters of toISOString(), is    *)
(* the number of the UTC day; dayMap is the object's entries in insertion  *)
(* order.                                                                  *)
(***************************************************************************)
MsPerDay == 24 * 60 * 60 * 1000

\* a * b and Math.abs(a)
Times(a, b) == IF a.t = "NaN" \/ b.t = "NaN" THEN NaN ELSE Num(a.n * b.n)
Abs(a) == IF a.t = "NaN" THEN NaN ELSE Num(IF a.n < 0 THEN -a.n ELSE a.n)

\* new Date(t.timestamp || t.createdAt || 0).toISOString().slice(0, 10)
DayKey(t) == Or(Or(t.timestamp, t.createdAt), Num(0)).n \div MsPerDay

\* if (!dayMap[key]) dayMap[key] = 0; dayMap[key] += Math.abs(size * price)
RECURSIVE dayMap(_)
dayMap(trades) ==
    IF trades = <<>> THEN <<>>
    ELSE LET before == dayMap(SubSeq(trades, 1, Len(trades) - 1))
             t == trades[Len(trades)]
             key == DayKey(t)
             with == IF \E i \in 1..Len(before) : before[i].key = key
                     THEN before
                     ELSE Append(before, [key |-> key, volume |-> Num(0)])
             notional == Abs(Times(Number(Or(t.size, Num(0))),
                                   Number(Or(t.price, Num(0)))))
         IN [i \in 1..Len(with) |->
               IF with[i].key = key
               THEN [with[i] EXCEPT !.volume = Plus(@, notional)]
               ELSE with[i]]

\* Object.keys(dayMap).sort()
sortedDays(trades) ==
    LET map == dayMap(trades) IN
    SortSeq([i \in 1..Len(map) |-> map[i].key], LAMBDA a, b : a < b)

\* sortedDays.map(d => dayMap[d])
dayValues(trades) ==
    LET map == dayMap(trades)
        days == sortedDays(trades)
    IN [i \in 1..Len(days) |->
          (CHOOSE e \in { map[j] : j \in 1..Len(map) } : e.key = days[i]).volume]

RECURSIVE SumNums(_)
SumNums(list) ==
    IF list = <<>> THEN Num(0)
    ELSE Plus(SumNums(SubSeq(list, 1, Len(list) - 1)), list[Len(list)])

\* values.slice(Math.max(0, i - 7), i + 1)
ma7_window8(vals) ==
    [k \in 1..Len(vals) |->
        LET window == SubSeq(vals, IF k - 7 > 1 THEN k - 7 ELSE 1, k)
        IN Divide(SumNums(window), Num(Len(window)))]

\* values.slice(Math.max(0, i - 6), i + 1), its sum over its length
ma7(vals) ==
    [k \in 1..Len(vals) |->
        LET window == SubSeq(vals, IF k - 6 > 1 THEN k - 6 ELSE 1, k)
        IN Divide(SumNums(window), Num(Len(window)))]

(***************************************************************************)
(* SpecVolume: the series drawn for any trades made on at most MaxDays     *)
(* days, listed newest first as the API lists them.  On a day there is no  *)
(* trade, one of d shares at 1, two (a sale of 2 shares at 3 and, twelve   *)
(* hours later, a trade without a price), or one dated by createdAt only.  *)
(***************************************************************************)
Days == 1..MaxDays
TradesOf(d, choice) ==
    IF choice = 1 THEN <<>>
    ELSE IF choice = 2
    THEN <<[timestamp |-> Num(d * MsPerDay), createdAt |-> Undefined,
            size |-> Num(d), price |-> Num(1)]>>
    ELSE IF choice = 3
    THEN <<[timestamp |-> Num(d * MsPerDay + MsPerDay \div 2),
            createdAt |-> Undefined, size |-> Num(1), price |-> Undefined],
           [timestamp |-> Num(d * MsPerDay), createdAt |-> Undefined,
            size |-> Num(-2), price |-> Num(3)]>>
    ELSE <<[timestamp |-> Undefined, createdAt |-> Num(d * MsPerDay + 1),
            size |-> Num(1), price |-> Num(5)]>>

RECURSIVE TradeRows(_, _)
TradeRows(choice, d) ==
    IF d < 1 THEN <<>> ELSE TradesOf(d, choice[d]) \o TradeRows(choice, d - 1)

InitVolume ==
    /\ IdlePage
    /\ \E choice \in [Days -> 1..4] : input = [trades |-> TradeRows(choice, MaxDays)]
    /\ output = NoCall

DrawVolume ==
    /\ output = NoCall
    /\ output' = [fn |-> "renderTradeVolume",
                  noData |-> input.trades = <<>>,
                  values |-> dayValues(input.trades),
                  ma7 |-> ma7(dayValues(input.trades))]
    /\ UNCHANGED <<pagerVars, appVars, input>>

NextVolume == DrawVolume

SpecVolume == InitVolume /\ [][NextVolume]_vars

(***************************************************************************)
(* SpecClick: the page opened without an address, a valid address typed,   *)
(* and the load button clicked once; then the browser's hashchange and the *)
(* network's answers.                                                      *)
(***************************************************************************)
InitClick ==
    /\ pager = Return(fetchAllPages_call("trades", "0xA", ENDPOINT_CONFIG.trades))
    /\ reqCount = 0 /\ answered = 0 /\ received = <<>> /\ lastRes = NoResponse
    /\ input = NoCall /\ output = NoCall
    /\ navCount = 0
    /\ batches = NoBatches /\ nBatches = 0
    /\ \E val \in { v \in InputTexts : ADDR_RE(getFullAddressOf(v)) } :
          Holds(validateInput([LoadedPage("", TRUE) EXCEPT !.addressInput = val]))

NextClick ==
    \/ LoadClick
    \/ HashChange
    \/ PositionsSettle
    \/ ClosedSettle
    \/ TradesSettle
    \/ ActivitySettle
    \/ LeaderboardSettle
    \/ ValueSettle

SpecClick == InitClick /\ [][NextClick]_vars

(***************************************************************************)
(* Theme.  setTheme writes the document's data-theme attribute and a       *)
(* localStorage entry, which only getTheme reads; what toggleTheme does to *)
(* the page's state is to draw every chart again.                          *)
(***************************************************************************)
renderAllCharts(p, data) ==
    LET p1 == destroyCharts(p)
        p2 == IF length(data.positions) # 0
              THEN renderAllocationByPosition(p1, data.positions) ELSE p1
        p3 == IF length(data.positions) # 0 \/ length(data.closedPositions) # 0
              THEN renderWinnersLosers(p2, data.positions, data.closedPositions)
              ELSE p2
        p4 == renderTimeline(p3, data.activity)
    IN renderTradeVolume(p4, data.trades)

toggleTheme(p) ==
    IF "dashboard" \in p.visible /\ ~p.lastData.isNull
    THEN renderAllCharts(p, p.lastData)
    ELSE p

(***************************************************************************)
(* SpecCharts: one lookup in flight, the theme toggled and the PDF export  *)
(* clicked at any moment.                                                  *)
(***************************************************************************)
ToggleTheme ==
    /\ Commit(toggleTheme(Page))
    /\ UNCHANGED <<batches, nBatches, navCount>>
    /\ UNCHANGED <<pagerVars, fnVars>>

NextCharts ==
    \/ PositionsSettle
    \/ ClosedSettle
    \/ TradesSettle
    \/ ActivitySettle
    \/ LeaderboardSettle
    \/ ValueSettle
    \/ ToggleTheme
    \/ PdfClick

SpecCharts == InitLookup /\ [][NextCharts]_vars

(***************************************************************************)
(* SpecPages: one call of fetchAllPages for any configured endpoint.       *)
(***************************************************************************)
InitPages ==
    /\ \E e \in CoreEndpoints, a \in Addresses :
          pager = fetchAllPages_call(e, a, ENDPOINT_CONFIG[e])
    /\ reqCount = IF pager.pc = "await" THEN 1 ELSE 0
    /\ answered = 0
    /\ received = <<>>
    /\ lastRes = NoResponse
    /\ input = NoCall /\ output = NoCall
    /\ Holds(LoadedPage("", TRUE))
    /\ batches = NoBatches /\ nBatches = 0 /\ navCount = 0

\* The awaited request is answered and the call runs to its next await.
Deliver(res) ==
    /\ pager.pc = "await"
    /\ pager' = fetchAllPages_resume(pager, res)
    /\ reqCount' = IF pager'.pc = "await" THEN reqCount + 1 ELSE reqCount
    /\ answered' = answered + 1
    /\ received' = IF res.net = "ok" /\ res.ok /\ unwrapArray(res.body).isArray
                   THEN ArrayConcat(received, unwrapArray(res.body).rows)
                   ELSE received
    /\ lastRes' = res
    /\ UNCHANGED <<appVars, fnVars>>

PageArrives ==
    \E res \in Responses(pager.address, pager.offset, pager.limit) :
        /\ res.net = "ok" /\ res.ok
        /\ Deliver(res)

RequestFails ==
    \E res \in Responses(pager.address, pager.offset, pager.limit) :
        /\ ~(res.net = "ok" /\ res.ok)
        /\ Deliver(res)

NextPages == PageArrives \/ RequestFails

SpecPages == InitPages /\ [][NextPages]_vars

(***************************************************************************)
(* Properties of fetchAllPages (SpecPages).                                *)
(***************************************************************************)
CeilDiv(a, b) == (a + b - 1) \div b

\* The configuration the call under study was made with.
CallConfig == ENDPOINT_CONFIG[pager.basePath]


\* C1: every request fetchAllPages issues carries the endpoint's page size
\* and an offset that is a multiple of it: the k-th request asks for offset
\* (k-1)*limit, so the offsets start at 0 and strictly increase, and none
\* exceeds the endpoint's maxOffset.
C1_RequestOffsets ==
    pager.pc = "await" =>
        /\ pager.path.limit = CallConfig.limit
        /\ pager.path.offset % CallConfig.limit = 0
        /\ pager.path.offset = (reqCount - 1) * CallConfig.limit
        /\ reqCount = 1 => pager.path.offset = 0
        /\ pager.path.offset >= 0
        /\ pager.path.offset <= CallConfig.maxOffset

\* A request at the largest offset the endpoint allows is awaited.
C1_Witness ==
    /\ pager.pc = "await"
    /\ reqCount > 1
    /\ pager.path.offset = CallConfig.maxOffset

\* C2: fetchAllPages issues at most ceil(maxOffset/limit)+1 requests, and
\* once that many have been answered it has returned, also when every answer
\* was a full page.
MaxRequests == CeilDiv(CallConfig.maxOffset, CallConfig.limit) + 1

C2_BoundedRequests ==
    /\ reqCount <= MaxRequests
    /\ answered <= reqCount
    /\ answered = MaxRequests => pager.pc = "returned"
    /\ pager.pc = "returned" => answered = reqCount

\* The server answered every request with a full page and the call returned.
C2_Witness ==
    /\ pager.pc = "returned"
    /\ reqCount = MaxRequests
    /\ length(received) = MaxRequests * CallConfig.limit

\* C3: when a page with fewer rows than the page size (zero rows included)
\* arrives, fetchAllPages issues no further request and resolves with the
\* rows accumulated so far, that page included.
C3_ShortPageStops ==
    (IsPage(lastRes) /\ length(PageRows(lastRes)) < CallConfig.limit) =>
        /\ pager.pc = "returned"
        /\ reqCount = answered
        /\ pager.promise = Fulfilled(received)

\* A short, non-empty page arrived after a full one.
C3_Witness ==
    /\ IsPage(lastRes)
    /\ length(PageRows(lastRes)) = CallConfig.limit - 1
    /\ answered = 2
    /\ pager.pc = "returned"

\* C4: the accumulated array is at every moment the concatenation, in
\* request order, of the pages received so far (for the offsets 0, limit,
\* 2*limit, ...), and that is the array returned: no row is added, dropped,
\* reordered or duplicated by the loop, and no offset is requested twice.
C4_Concatenation ==
    /\ pager.all = received
    /\ pager.pc = "returned" => pager.promise = Fulfilled(received)
    /\ pager.pc = "await" => pager.promise = Pending
    /\ pager.pc = "await" => pager.offset = (reqCount - 1) * pager.limit
    /\ pager.pc = "await" => length(received) = pager.offset

\* Three pages were received and returned.
C4_Witness ==
    /\ pager.pc = "returned"
    /\ answered = 3
    /\ length(pager.promise.value) = 3 * CallConfig.limit - 1

\* C5: when the request for page k fails (network error or non-OK status),
\* fetchAllPages neither retries it nor issues another request; it resolves
\* with the concatenation of the pages before it (the empty array when the
\* first request fails), and its promise is never rejected.
C5_FailureTruncates ==
    /\ pager.promise.status # "rejected"
    /\ IsFailure(lastRes) =>
        /\ pager.pc = "returned"
        /\ reqCount = answered
        /\ pager.promise = Fulfilled(received)
        /\ length(received) = (answered - 1) * CallConfig.limit
        /\ answered = 1 => pager.promise.value = <<>>

\* The second request got a non-OK status after a full first page.
C5_Witness ==
    /\ lastRes.net = "ok" /\ ~lastRes.ok
    /\ answered = 2
    /\ length(pager.promise.value) = CallConfig.limit

(***************************************************************************)
(* Properties of analyze (SpecLookup, Spec).                               *)
(***************************************************************************)
\* The lookup's five promises have settled and each of the four core
\* endpoints' first request failed.
TotalFailure(id) ==
    /\ batches[id].finished
    /\ CoreEndpoints \subseteq batches[id].failed

\* C6: once the fetches of a lookup have settled, if all four core fetches
\* failed the entry screen is the one shown and it carries the failure
\* message; otherwise the dashboard is shown and the failure message is not.
C6_TotalFailureShown ==
    \A id \in BatchIds :
        batches[id].finished =>
            IF CoreEndpoints \subseteq batches[id].failed
            THEN visible = {"entry"} /\ entryError = FailedMsg
            ELSE visible = {"dashboard"} /\ entryError # FailedMsg

\* Every fetch of the lookup failed and has settled; the dashboard is shown
\* and no message is.
C6_Witness ==
    /\ TotalFailure(1)
    /\ ~batches[1].valuePending
    /\ visible = {"dashboard"}
    /\ entryError = ""

\* C7: after a total failure lastData no longer holds the record analyze
\* created for that lookup.
C7_NoSnapshotRetained ==
    \A id \in BatchIds :
        TotalFailure(id) => lastData.isNull \/ lastData.createdBy # id

\* The record of the failed lookup is still the current snapshot.
C7_Witness ==
    /\ TotalFailure(1)
    /\ ~lastData.isNull
    /\ lastData.createdBy = 1
    /\ length(lastData.positions) = 0
    /\ length(lastData.trades) = 0

\* A fetch of lookup id is answered in this step.
Answers(id) ==
    /\ nBatches' = nBatches
    /\ navCount' = navCount
    /\ hashEvents' = hashEvents
    /\ batches'[id] # batches[id]

\* C8: an answer to a lookup abandoned by a navigation event changes no
\* field of the snapshot and no table, chart, timeline or metric.
C8_StaleDiscarded ==
    [][\A id \in BatchIds :
          (batches[id].abandoned /\ Answers(id)) =>
              UNCHANGED <<lastData, dom, chartInstances, activePositions,
                          closedPositionsData, activePage, closedPage>>]_vars

\* The snapshot of the second lookup holds trades of the first one's address,
\* and they are drawn, while the second lookup's trades are still awaited.
C8_Witness ==
    /\ nBatches = 2
    /\ lastData.createdBy = 2
    /\ batches[2].address = "0xB"
    /\ batches[2].promises["trades"] = "pending"
    /\ lastData.trades = ServerRows("0xA", 0, ENDPOINT_CONFIG.trades.limit + 1)
    /\ \E i \in 1..Len(chartInstances) :
          chartInstances[i] = Chart("volume", <<>>, <<>>, lastData.trades)

\* The charts on a canvas.
ChartsOn(canvas) ==
    { i \in 1..Len(chartInstances) : chartInstances[i].canvas = canvas }

\* C9: in one lookup, whatever the order of the answers, the metrics are
\* rendered exactly when positions, closed positions and leaderboard have
\* all resolved, and winners/losers exactly when positions and closed
\* positions have; until then the calls of tryRenderMetrics and
\* tryRenderWinnersLosers leave the panels as analyze put them, and neither
\* renders a second time.
C9_GuardedRenderers ==
    LET b == batches[1]
        resolved(e) == b.promises[e] = "fulfilled"
        metricsDue == resolved("positions") /\ resolved("closedPositions")
                      /\ resolved("leaderboard")
        winnersDue == resolved("positions") /\ resolved("closedPositions")
    IN /\ b.positionsReady = resolved("positions")
       /\ b.closedReady = resolved("closedPositions")
       /\ b.leaderboardReady = resolved("leaderboard")
       /\ b.metricsRenders = IF metricsDue THEN 1 ELSE 0
       /\ b.winnersLosersRenders = IF winnersDue THEN 1 ELSE 0
       /\ ~metricsDue => dom.metricsSkeleton /\ dom.metrics = NoMetrics
       /\ metricsDue => /\ ~dom.metricsSkeleton
                        /\ dom.metrics = computeMetrics(lastData)
       /\ ~winnersDue => /\ dom.winnersSkeleton /\ dom.losersSkeleton
                         /\ ChartsOn("winners") = {}
                         /\ ChartsOn("losers") = {}
       /\ winnersDue => /\ ~dom.winnersSkeleton /\ ~dom.losersSkeleton
                        /\ Cardinality(ChartsOn("winners")) <= 1
                        /\ Cardinality(ChartsOn("losers")) <= 1

\* Every fetch has settled, with positions and a rank: the metrics and the
\* winners/losers charts were rendered once.
C9_Witness ==
    /\ batches[1].finished
    /\ ~batches[1].valuePending
    /\ batches[1].metricsRenders = 1
    /\ batches[1].winnersLosersRenders = 1
    /\ dom.metrics.rank # 0
    /\ dom.metrics.activeCount # 0
    /\ Cardinality(ChartsOn("winners")) = 1

\* Endpoint e of the lookup resolves in this step.
Resolves(e) ==
    /\ batches[1].promises[e] = "pending"
    /\ batches'[1].promises[e] = "fulfilled"

\* C10: in the step in which an endpoint's fetch resolves, its own panels
\* are rendered from its result, whatever the state of the other fetches:
\* positions draw the allocation chart and the active table, closed
\* positions the closed table, trades the volume chart, activity the
\* timeline.
C10_OwnRenderers ==
    [][/\ Resolves("positions") =>
            /\ ~dom'.allocSkeleton
            /\ ~dom'.activeTable.skeleton
            /\ activePositions' = lastData'.positions
            /\ IF length(lastData'.positions) = 0
               THEN dom'.activeTable.empty
               ELSE /\ dom'.activeTable.list = lastData'.positions
                    /\ \E i \in 1..Len(chartInstances') :
                         chartInstances'[i] =
                            Chart("alloc", lastData'.positions, <<>>, <<>>)
       /\ Resolves("closedPositions") =>
            /\ ~dom'.closedTable.skeleton
            /\ closedPositionsData' = lastData'.closedPositions
            /\ IF length(lastData'.closedPositions) = 0
               THEN dom'.closedTable.empty
               ELSE dom'.closedTable.list = lastData'.closedPositions
       /\ Resolves("trades") =>
            /\ ~dom'.volumeSkeleton
            /\ chartInstances' =
                 Append(chartInstances,
                        Chart("volume", <<>>, <<>>, lastData'.trades))
       /\ Resolves("activity") =>
            /\ ~dom'.timeline.skeleton
            /\ dom'.timeline.activity = lastData'.activity
            /\ dom'.timeline.empty = (length(lastData'.activity) = 0)
      ]_vars

\* The trades have been drawn while positions and closed positions are
\* still awaited and the activity fetch has failed.
C10_Witness ==
    /\ batches[1].promises["trades"] = "fulfilled"
    /\ batches[1].promises["positions"] = "pending"
    /\ batches[1].promises["closedPositions"] = "pending"
    /\ "activity" \in batches[1].failed
    /\ length(lastData.trades) # 0
    /\ ~dom.volumeSkeleton
    /\ ChartsOn("volume") # {}
    /\ dom.timeline.empty

\* The snapshot field the continuation of fetch e writes.
FieldOf(e) == IF e = "value" THEN "quickValue" ELSE e

\* Fetch e of the lookup settles in this step.
Settling(e) == IsPending(batches[1], e) /\ ~IsPending(batches'[1], e)

\* C11: a step changes a field of the snapshot only if it is the step in
\* which that field's own fetch settles, so no continuation touches another
\* endpoint's field; and the array a core endpoint's fetch resolved with is
\* what its field holds from then on (the rows of the server, or the empty
\* array when the fetch failed).
C11_FieldDisjoint ==
    [][/\ lastData'.isNull = lastData.isNull
       /\ lastData'.createdBy = lastData.createdBy
       /\ \A e \in Fetches :
            /\ lastData'[FieldOf(e)] # lastData[FieldOf(e)] => Settling(e)
            /\ ~IsPending(batches'[1], e) /\ e \in CoreEndpoints =>
                 lastData'[e] =
                    IF e \in batches'[1].failed THEN <<>>
                    ELSE ServerRows(batches[1].address, 0,
                                    ENDPOINT_CONFIG[e].limit + 1)
      ]_vars

\* All six fetches have succeeded and every field holds its own result.
C11_Witness ==
    /\ batches[1].finished
    /\ ~batches[1].valuePending
    /\ batches[1].failed = {}
    /\ \A e \in CoreEndpoints : length(lastData[e]) = ENDPOINT_CONFIG[e].limit + 1
    /\ lastData.leaderboard = BareArray(ServerRows(batches[1].address, 0, 1))
    /\ lastData.quickValue = EmptyObject

\* C12: whenever the snapshot slot is non-null, with fetches pending, failed
\* or answered late, its positions, closedPositions, trades and activity
\* fields are arrays, never null or undefined.
C12_FieldsAreArrays ==
    ~lastData.isNull => \A e \in CoreEndpoints : IsArray(lastData[e])

\* A partially populated snapshot: positions have arrived, the closed
\* positions fetch has failed, trades and activity are still awaited.
C12_Witness ==
    /\ ~lastData.isNull
    /\ \E id \in BatchIds :
        /\ lastData.createdBy = id
        /\ batches[id].promises["positions"] = "fulfilled"
        /\ "closedPositions" \in batches[id].failed
        /\ batches[id].promises["trades"] = "pending"
        /\ batches[id].promises["activity"] = "pending"
        /\ length(lastData.positions) # 0
        /\ lastData.closedPositions = <<>>
        /\ lastData.trades = <<>>

\* C13: every call of analyze, and so every request to the upstream API, is
\* for an address that matches ADDR_RE, whether it came from the load button
\* (0x prepended to unprefixed input), a hash change or the initial URL; and
\* a load-button click on an invalid input sets the field's error message
\* and changes nothing else: snapshot, recent list, URL, screen and lookups
\* stay as they were.
C13_OnlyValidAddresses ==
    /\ [](\A id \in BatchIds :
            batches[id] # IdleBatch => ADDR_RE(batches[id].address))
    /\ [][(entryError' = InvalidMsg /\ entryError # InvalidMsg) =>
            /\ ~ADDR_RE(getFullAddress(Page))
            /\ UNCHANGED <<lastData, chartInstances, activePositions,
                           closedPositionsData, activePage, closedPage,
                           visible, addressInput, loadBtnDisabled, dom,
                           hash, hashEvents, recent, batches, nBatches>>
         ]_vars

\* The load button was clicked on an invalid input: the message is shown,
\* no lookup was made.
C13_Witness ==
    /\ entryError = InvalidMsg
    /\ ~ADDR_RE(getFullAddress(Page))
    /\ nBatches = 0
    /\ recent = <<>>
    /\ hash = ""
    /\ visible = {"entry"}
    /\ lastData.isNull

\* C14: the hashchange listener, run on a fragment that is a valid address,
\* starts a fresh lookup for it: the charts are destroyed, the snapshot slot
\* holds a new record with empty collections, the fetches for that address
\* are fired and the dashboard is shown; run on an empty or invalid
\* fragment, it destroys the charts, sets lastData to null and shows the
\* entry screen.
C14_HashChangeDrives ==
    [][hashEvents' = hashEvents - 1 =>
         IF ADDR_RE(hash)
         THEN /\ nBatches' = nBatches + 1
              /\ batches'[nBatches'] = NewBatch(hash)
              /\ lastData' = FreshData(nBatches')
              /\ \A e \in CoreEndpoints : lastData'[e] = <<>>
              /\ chartInstances' = <<>>
              /\ activePositions' = <<>> /\ closedPositionsData' = <<>>
              /\ dom'.dashAddr = hash
              /\ visible' = {"dashboard"}
         ELSE /\ chartInstances' = <<>>
              /\ lastData' = NullData
              /\ activePositions' = <<>>
              /\ visible' = {"entry"}
              /\ nBatches' = nBatches
      ]_vars

\* The fragment was changed to another address while the dashboard showed
\* data of the first: a fresh lookup for the new address is under way.
C14_Witness ==
    /\ nBatches = 2
    /\ hash = "0xB" /\ hashEvents = 0
    /\ batches[2] = NewBatch("0xB")
    /\ lastData = FreshData(2)
    /\ visible = {"dashboard"}
    /\ chartInstances = <<>>
    /\ dom.dashAddr = "0xB"
    /\ navCount = 1

(***************************************************************************)
(* Properties of the recent list (SpecRecent).                             *)
(***************************************************************************)
\* The distinct addresses of a history of saves, the most recently saved
\* first.
RECURSIVE MostRecentFirst(_)
MostRecentFirst(log) ==
    IF log = <<>> THEN <<>>
    ELSE LET last == log[Len(log)]
             before == SubSeq(log, 1, Len(log) - 1)
         IN <<last>> \o SelectSeq(MostRecentFirst(before),
                                  LAMBDA a : a # last)

\* C15: after any sequence of saves the stored list is the (at most 5) most
\* recently saved distinct addresses, most recent first: never more than 5
\* entries, no duplicate; so re-saving a stored address moves it to the
\* front and keeps the length, and a sixth distinct address evicts the
\* least recently saved one.
C15_RecentIsMRU ==
    LET all == MostRecentFirst(input) IN
    /\ Len(recent) <= MAX_RECENT
    /\ \A i, j \in 1..Len(recent) : recent[i] = recent[j] => i = j
    /\ recent = IF Len(all) > MAX_RECENT THEN SubSeq(all, 1, MAX_RECENT)
                ELSE all

\* Six distinct addresses were saved and then the third of them again: the
\* first one saved was evicted by the sixth, and the re-saved one moved to
\* the front of a list that kept its five entries.
C15_Witness ==
    /\ Len(input) = 7
    /\ Cardinality({ input[i] : i \in 1..6 }) = 6
    /\ input[7] = input[3]
    /\ Len(recent) = MAX_RECENT
    /\ recent[1] = input[3]
    /\ \A i \in 1..Len(recent) : recent[i] # input[1]

(***************************************************************************)
(* Properties of computeMetrics (SpecMetrics).                             *)
(***************************************************************************)
\* The amount a numeric field stands for: its number, 0 when the field is
\* absent or null (what the sums of computeMetrics add).
Amount(v) == IF v.t = "number" THEN v.n ELSE 0

RECURSIVE SumAmounts(_)
SumAmounts(values) ==
    IF values = <<>> THEN 0 ELSE Amount(Head(values)) + SumAmounts(Tail(values))

\* Two quotients are the same number.
SameQuotient(a, b) ==
    /\ a.t = "number" /\ b.t = "number"
    /\ a.num * b.den = b.num * a.den

Computed == output # NoCall /\ output.fn = "computeMetrics"

\* C18: the win rate is (closed positions with realized PnL > 0) over
\* (closed positions with realized PnL # 0), and 0 when there is none of the
\* latter: exactly the positions whose realized PnL is zero are left out.
C18_WinRateExcludesZero ==
    Computed =>
        LET closed == input.closedPositions
            won == Cardinality({ i \in 1..Len(closed) :
                                   Amount(closed[i].realizedPnl) > 0 })
            decided == Cardinality({ i \in 1..Len(closed) :
                                       Amount(closed[i].realizedPnl) # 0 })
        IN SameQuotient(output.winRate,
                        IF decided = 0 THEN Zero
                        ELSE [t |-> "number", num |-> won, den |-> decided])

\* A closed position without a realizedPnl field next to a winning one: the
\* realized PnL sum counts it as 0, the win rate counts it as a loss.
C18_Witness ==
    /\ Computed
    /\ input.closedPositions = <<[realizedPnl |-> Undefined],
                                 [realizedPnl |-> Num(2)]>>
    /\ output.realizedPnl = Num(2)
    /\ output.winRate = [t |-> "number", num |-> 1, den |-> 2]

\* C19: return % is (unrealized PnL + realized PnL) / (total value -
\* unrealized PnL) when that denominator is strictly positive and 0
\* otherwise; total value and unrealized PnL are the sums over the active
\* positions, realized PnL the sum over the closed ones.
C19_ReturnPct ==
    Computed =>
        LET active == input.positions
            closed == input.closedPositions
            value == SumAmounts([i \in 1..Len(active) |->
                                    active[i].currentValue])
            unrealized == SumAmounts([i \in 1..Len(active) |->
                                         active[i].cashPnl])
            realized == SumAmounts([i \in 1..Len(closed) |->
                                       closed[i].realizedPnl])
        IN /\ output.totalValue = Num(value)
           /\ output.unrealizedPnl = Num(unrealized)
           /\ output.realizedPnl = Num(realized)
           /\ IF value - unrealized > 0
              THEN SameQuotient(output.returnPct,
                                [t |-> "number", num |-> unrealized + realized,
                                 den |-> value - unrealized])
              ELSE output.returnPct = Zero

\* Two active positions and closed ones, a positive cost basis and a
\* non-zero return.
C19_Witness ==
    /\ Computed
    /\ Len(input.positions) = 2
    /\ Len(input.closedPositions) > 0
    /\ output.realizedPnl # Num(0)
    /\ output.unrealizedPnl # Num(0)
    /\ output.returnPct.den > 1
    /\ output.returnPct.num # 0

(***************************************************************************)
(* Properties of the allocation slices (SpecAllocation).                   *)
(***************************************************************************)
Bucketed == output # NoCall /\ output.fn = "buildPieData"

\* C20: positions of zero value are dropped and the rest sorted descending
\* by value; more of them than the cap give exactly cap buckets, the first
\* cap-1 the largest positions one by one and the last "Other", labelled
\* with the number of collapsed positions and worth their sum; at most cap
\* of them keep a bucket each; the bucket values add up to the sum of the
\* input values.
C20_AllocationBuckets ==
    Bucketed =>
        LET positions == input.positions
            cap == input.maxSlices
            worth(i) == Amount(positions[i].currentValue)
            kept == { i \in 1..Len(positions) : worth(i) # 0 }
            n == Cardinality(kept)
            labels == output.labels
            values == output.values
            own == { b \in 1..Len(labels) : ~labels[b].other }
            named == { labels[b].n : b \in own }
        IN /\ Len(values) = Len(labels)
           /\ \A b \in own : /\ labels[b].n \in kept
                             /\ values[b] = Num(worth(labels[b].n))
           /\ \A b, c \in own : /\ b < c => values[b].n >= values[c].n
                                /\ labels[b].n = labels[c].n => b = c
           /\ IF n > cap
              THEN /\ Len(labels) = cap
                   /\ own = 1..(cap - 1)
                   /\ \A i \in named, j \in kept \ named : worth(i) >= worth(j)
                   /\ labels[cap] = OtherLabel(n - (cap - 1))
                   /\ values[cap] =
                        Num(SumAmounts([k \in 1..Len(positions) |->
                              IF k \in kept \ named
                              THEN positions[k].currentValue ELSE Num(0)]))
              ELSE /\ Len(labels) = n
                   /\ own = 1..n
                   /\ named = kept
           /\ SumAmounts([b \in 1..Len(values) |-> values[b]])
                = SumAmounts([k \in 1..Len(positions) |->
                                 positions[k].currentValue])

\* Four positions worth 1, 0, 3 and 2 under a cap of 2: the one worth 0 is
\* dropped, the largest keeps its slice, the other two are "Other (2)".
C20_Witness ==
    /\ Bucketed
    /\ input.maxSlices = 2
    /\ input.positions = <<[currentValue |-> Num(1)], [currentValue |-> Num(0)],
                           [currentValue |-> Num(3)], [currentValue |-> Num(2)]>>
    /\ output.labels = <<ItemLabel(3), OtherLabel(2)>>
    /\ output.values = <<Num(3), Num(3)>>

(***************************************************************************)
(* Properties of the exports (SpecExport).                                 *)
(***************************************************************************)
\* The step is a click on an export entry.
Exporting == input' # input \/ output' # output

\* C16: whenever an export writes a file, during loading or after it, the
\* summary metrics and the position rows of the file are the ones the page
\* shows at that moment: the metric cards are filled with the same metrics
\* and the two tables hold the same rows.
C16_ExportShowsWhatUIShows ==
    [][(Exporting /\ output'.file.saved) =>
          /\ ~dom.metricsSkeleton
          /\ output'.file.metrics = dom.metrics
          /\ output'.file.positions = dom.activeTable.list
          /\ output'.file.closedPositions = dom.closedTable.list]_vars

\* An export during loading: the active positions have arrived and fill
\* their table, the closed ones are still awaited, so the metric cards are
\* placeholders; the file has summary metrics computed from the snapshot as
\* it is.
C16_Witness ==
    /\ output # NoCall
    /\ output.file.saved
    /\ output.file.metrics = computeMetrics(lastData)
    /\ output.file.metrics.activeCount > 0
    /\ output.file.positions = dom.activeTable.list
    /\ \E id \in BatchIds : IsPending(batches[id], "closedPositions")
    /\ dom.metricsSkeleton
    /\ dom.metrics = NoMetrics

\* C17: an export without its library raises one alert and saves nothing,
\* an export without a snapshot raises none and saves nothing, and no
\* export changes the snapshot, the charts or the visible screen.
C17_MissingLibrary ==
    [][Exporting =>
          /\ UNCHANGED <<lastData, chartInstances, visible>>
          /\ lastData.isNull =>
                output'.alerts = <<>> /\ ~output'.file.saved
          /\ (~lastData.isNull /\ ~input'.library) =>
                Len(output'.alerts) = 1 /\ ~output'.file.saved]_vars

\* The PDF export found no library while the dashboard showed its charts:
\* one alert, no file, the dashboard as it was.
C17_Witness ==
    /\ input # NoCall
    /\ input.fn = "generatePDF"
    /\ ~input.library
    /\ Len(output.alerts) = 1
    /\ ~output.file.saved
    /\ ~lastData.isNull
    /\ visible = {"dashboard"}
    /\ chartInstances # <<>>

(***************************************************************************)
(* Properties of the winners and losers (SpecWinners).                     *)
(***************************************************************************)
Drawn == output # NoCall /\ output.fn = "renderWinnersLosers"

\* The total of a market: cashPnl over its active positions plus
\* realizedPnl over its closed ones.
MarketTotal(key) ==
    SumAmounts([i \in 1..Len(input.positions) |->
                  IF KeyOf(input.positions[i]) = key
                  THEN input.positions[i].cashPnl ELSE Num(0)])
    + SumAmounts([i \in 1..Len(input.closedPositions) |->
                    IF KeyOf(input.closedPositions[i]) = key
                    THEN input.closedPositions[i].realizedPnl ELSE Num(0)])

MarketKeys ==
    { KeyOf(input.positions[i]) : i \in 1..Len(input.positions) }
    \cup { KeyOf(input.closedPositions[i]) : i \in 1..Len(input.closedPositions) }

Min2(a, b) == IF a < b THEN a ELSE b

\* C21: a market's total is its active cashPnl plus its closed realizedPnl;
\* a market whose total is zero is in neither list; the winners are the (at
\* most 5) largest positive totals, largest first, the losers the (at most
\* 5) most negative ones, most negative first; no market is in both lists.
C21_WinnersLosers ==
    Drawn =>
        LET w == output.winners
            l == output.losers
            gained == { k \in MarketKeys : MarketTotal(k) > 0 }
            lost == { k \in MarketKeys : MarketTotal(k) < 0 }
            inW == { w[i].title : i \in 1..Len(w) }
            inL == { l[i].title : i \in 1..Len(l) }
        IN /\ Len(w) = Min2(5, Cardinality(gained))
           /\ Len(l) = Min2(5, Cardinality(lost))
           /\ Cardinality(inW) = Len(w) /\ Cardinality(inL) = Len(l)
           /\ inW \subseteq gained /\ inL \subseteq lost
           /\ inW \cap inL = {}
           /\ \A i \in 1..Len(w) : w[i].pnl = Num(MarketTotal(w[i].title))
           /\ \A i \in 1..Len(l) : l[i].pnl = Num(MarketTotal(l[i].title))
           /\ \A i, j \in 1..Len(w) : i < j => w[i].pnl.n >= w[j].pnl.n
           /\ \A i, j \in 1..Len(l) : i < j => l[i].pnl.n <= l[j].pnl.n
           /\ \A k \in inW, o \in gained \ inW : MarketTotal(k) >= MarketTotal(o)
           /\ \A k \in inL, o \in lost \ inL : MarketTotal(k) <= MarketTotal(o)

\* Six markets lost, one of them on untitled rows, another on an active and
\* a closed position together: five losers are drawn, the most negative
\* first, and the smallest loss is left out.
C21_Witness ==
    /\ Drawn
    /\ Cardinality({ k \in MarketKeys : MarketTotal(k) < 0 }) = 6
    /\ Len(output.losers) = 5
    /\ output.losers[1] = [title |-> "Unknown", pnl |-> Num(-13)]
    /\ \E i \in 1..5 : output.losers[i].title = "B"
    /\ \A i \in 1..5 : output.losers[i].title # "A"
    /\ output.winners = <<>>

(***************************************************************************)
(* Properties of the trade volume series (SpecVolume).                     *)
(***************************************************************************)
VolumeDrawn == output # NoCall /\ output.fn = "renderTradeVolume"

RECURSIVE SumInts(_)
SumInts(list) == IF list = <<>> THEN 0 ELSE Head(list) + SumInts(Tail(list))

\* C22: point i of the moving average is the arithmetic mean of the daily
\* volumes v[max(0, i-6)] .. v[i] (fewer than 7 entries for the first six
\* points), and the daily volumes add up to the sum of |size x price| over
\* all trades.
C22_MovingAverage ==
    VolumeDrawn =>
        LET v == [i \in 1..Len(output.values) |-> output.values[i].n]
            from(i) == IF i - 6 > 1 THEN i - 6 ELSE 1
            notional(t) == LET x == Amount(t.size) * Amount(t.price)
                           IN IF x < 0 THEN -x ELSE x
        IN /\ Len(output.ma7) = Len(v)
           /\ \A i \in 1..Len(v) :
                SameQuotient(output.ma7[i],
                             [t |-> "number",
                              num |-> SumInts(SubSeq(v, from(i), i)),
                              den |-> i - from(i) + 1])
           /\ SumInts(v) = SumInts([k \in 1..Len(input.trades) |->
                                      notional(input.trades[k])])

\* Trades on eight days, the first day's volume unlike the others': the
\* eighth point averages the last seven days only, the sixth all six.
C22_Witness ==
    /\ VolumeDrawn
    /\ Len(output.values) = 8
    /\ output.values[1] = Num(1)
    /\ \A i \in 2..8 : output.values[i] = Num(6)
    /\ output.ma7[8] = [t |-> "number", num |-> 42, den |-> 7]
    /\ output.ma7[6] = [t |-> "number", num |-> 31, den |-> 6]

(***************************************************************************)
(* More properties of fetchAllPages (SpecPages).                           *)
(***************************************************************************)
\* Every page delivered so far was a full one: the server holds at least
\* answered * limit rows, and may hold exactly that many.
FullPagesOnly ==
    answered >= 1 /\ length(received) = answered * CallConfig.limit

\* The page delivered last is empty and every page before it was full: the
\* server holds exactly (answered - 1) * limit rows.
EmptyAfterFull ==
    /\ answered >= 2
    /\ IsPage(lastRes) /\ length(PageRows(lastRes)) = 0
    /\ length(received) = (answered - 1) * CallConfig.limit

\* The empty page ends the loop normally, with every row returned.
EmptyPageEnds ==
    EmptyAfterFull =>
        /\ pager.pc = "returned"
        /\ reqCount = answered
        /\ pager.promise = Fulfilled(received)

\* C23 as stated: whenever the result count is a positive multiple of the
\* page size, one more request follows the last full page; it returns zero
\* rows and ends the loop normally with the full result set.
C23_ExtraEmptyPage ==
    /\ FullPagesOnly => pager.pc = "await" /\ reqCount = answered + 1
    /\ EmptyPageEnds

\* C23, amended: one more request follows the last full page when the
\* offset after it is within maxOffset; beyond maxOffset the call returns
\* the full pages it has without another request.  An empty page after
\* full ones ends the loop normally with the full result set.
C23_ExtraEmptyPageWithinCap ==
    /\ FullPagesOnly =>
          IF answered * CallConfig.limit <= CallConfig.maxOffset
          THEN pager.pc = "await" /\ reqCount = answered + 1
          ELSE /\ pager.pc = "returned" /\ reqCount = answered
               /\ pager.promise = Fulfilled(received)
    /\ EmptyPageEnds

\* Two full pages and then an empty one: three requests, all rows returned.
C23_Witness ==
    /\ EmptyAfterFull
    /\ answered = 3
    /\ reqCount = 3
    /\ pager.pc = "returned"
    /\ length(pager.promise.value) = 2 * CallConfig.limit

\* The response delivered in this step has a body of unrecognized shape.
UnrecognizedArrives ==
    /\ answered' = answered + 1
    /\ lastRes'.net = "ok" /\ lastRes'.ok
    /\ ~unwrapArray(lastRes'.body).isArray

\* C24: a page whose body is of unrecognized shape is treated exactly like
\* an empty page: nothing is thrown, no further request is issued, and the
\* call returns the array it would have returned for an empty array.
C24_UnrecognizedIsEmpty ==
    [][UnrecognizedArrives =>
          /\ pager' = fetchAllPages_resume(pager, HttpOk(BareArray(<<>>)))
          /\ pager'.pc = "returned"
          /\ pager'.promise = Fulfilled(received)
          /\ received' = received
          /\ reqCount' = reqCount]_vars

\* An object without data, results or positions came after a full page: the
\* call returned the full page.
C24_Witness ==
    /\ lastRes = HttpOk(EmptyObject)
    /\ answered = 2
    /\ reqCount = 2
    /\ pager.pc = "returned"
    /\ length(pager.promise.value) = CallConfig.limit

(***************************************************************************)
(* Properties of one click on the load button (SpecClick).                 *)
(***************************************************************************)
\* C25: one click on the load button with a valid address starts exactly
\* one fetch batch, the hashchange that the click's URL update causes
\* included: analyze has run once when the dashboard shows, and never
\* twice.
C25_OneBatchPerClick ==
    nBatches = IF "dashboard" \in visible THEN 1 ELSE 0

\* After the one click (one address saved) and its hashchange, a second
\* batch is in flight for the address of the click.
C25_Witness ==
    /\ Len(recent) = 1
    /\ hashEvents = 0
    /\ hash = recent[1]
    /\ nBatches = 2
    /\ batches[2].address = hash
    /\ InFlight(batches[2])
    /\ lastData.createdBy = 2

(***************************************************************************)
(* Properties of the chart list (SpecCharts).                              *)
(***************************************************************************)
\* C26: whenever generatePDF reads chartInstances[0] as the allocation
\* chart, that entry is the chart drawn on the allocation canvas, whatever
\* the order of the answers and after any theme toggle.
C26_FirstChartIsAllocation ==
    (output # NoCall /\ output.fn = "generatePDF"
       /\ output.file.saved /\ output.file.allocChart # NoChart)
    => output.file.allocChart.canvas = "alloc"

\* The trades were answered before the positions: the PDF took the volume
\* chart for the allocation chart, which is second in the list.
C26_Witness ==
    /\ output # NoCall /\ output.fn = "generatePDF" /\ output.file.saved
    /\ output.file.allocChart.canvas = "volume"
    /\ Len(chartInstances) >= 2
    /\ output.file.allocChart = chartInstances[1]
    /\ chartInstances[2].canvas = "alloc"

\* C27: chartInstances holds at most one live chart per canvas: no chart is
\* created on a canvas whose previous chart has not been destroyed.
C27_OneChartPerCanvas ==
    \A i, j \in 1..Len(chartInstances) :
        chartInstances[i].canvas = chartInstances[j].canvas => i = j

\* The theme was toggled before the trades were answered: the volume canvas
\* carries the chart drawn from no trades and the one drawn from the trades.
C27_Witness ==
    \E i, j \in 1..Len(chartInstances) :
        /\ i < j
        /\ chartInstances[i].canvas = "volume"
        /\ chartInstances[j].canvas = "volume"
        /\ length(chartInstances[i].trades) = 0
        /\ length(chartInstances[j].trades) > 0

(***************************************************************************)
(* Properties of the screens (Spec).                                       *)
(***************************************************************************)
\* C28: after every event handler and every fetch continuation exactly one
\* of the entry, loading and dashboard screens is visible, and it is the
\* dashboard if and only if the snapshot slot lastData is not null.
C28_OneScreen ==
    /\ visible \subseteq Screens
    /\ Cardinality(visible) = 1
    /\ "dashboard" \in visible <=> ~lastData.isNull

\* Back on the entry screen, the snapshot cleared, while a fetch of the
\* lookup left behind is still to be answered.
C28_Witness ==
    /\ visible = {"entry"}
    /\ lastData.isNull
    /\ navCount > 0
    /\ \E id \in BatchIds : InFlight(batches[id])

\* ---------------------------------------------------------------------
\* Position tables: sort, page slice and pagination
\* (renderActiveTable, renderClosedTable, renderPagination,
\*  initSortControls, and the table part of analyze and of the back button)
\* ---------------------------------------------------------------------
MaxTableRows == 101
MaxPending == 2

Tables == {"active", "closed"}

SortKeys(which) ==
    IF which = "active" THEN {"currentValue", "endDate"}
                        ELSE {"realizedPnl", "timestamp"}

SortDirs == {"asc", "desc"}

DefaultSortKey(which) == IF which = "active" THEN "currentValue" ELSE "timestamp"

\* A date string of the API, kept as its day number; an absent date is Undefined
DateString(d) == [t |-> "date", n |-> d]

\* new Date(v).getTime()
getTime(v) == IF v.t = "date" THEN v.n * MsPerDay ELSE v.n

\* The number the comparator of a table's sort reads from a row
SortValue(which, row, sortKey) ==
    IF sortKey = (IF which = "active" THEN "endDate" ELSE "timestamp")
    THEN IF row[sortKey] = Undefined \/ row[sortKey] = Num(0)
         THEN 0
         ELSE getTime(row[sortKey])
    ELSE Or(Number(row[sortKey]), Num(0)).n

\* The comparator (a, b) => sortDir === 'asc' ? va - vb : vb - va
compare(which, a, b, sortKey, sortDir) ==
    IF sortDir = "asc"
    THEN SortValue(which, a, sortKey) - SortValue(which, b, sortKey)
    ELSE SortValue(which, b, sortKey) - SortValue(which, a, sortKey)

\* [...positions].sort(comparator): a stable sort, a row moves ahead of the
\* rows the comparator puts strictly after it
sortRows(which, rows, sortKey, sortDir) ==
    SortSeq(rows, LAMBDA a, b : compare(which, a, b, sortKey, sortDir) < 0)

\* Array.prototype.slice(start, end)
sliceRows(rows, start, end) ==
    SubSeq(rows, start + 1, IF end < Len(rows) THEN end ELSE Len(rows))

NoPagination ==
    [currentPage |-> 0, totalPages |-> 0, positions |-> <<>>, sortKey |-> "", sortDir |-> ""]

\* renderPagination: the container is removed for a single page, otherwise its
\* buttons are rebuilt and their listeners close over this render's arguments
renderPagination(currentPage, totalPages, positions, sortKey, sortDir) ==
    IF totalPages <= 1
    THEN NoPagination
    ELSE [currentPage |-> currentPage, totalPages |-> totalPages,
          positions |-> positions, sortKey |-> sortKey, sortDir |-> sortDir]

\* A pagination button and its data-page attribute
PageButton(kind, n) == [kind |-> kind, n |-> n]

\* The buttons renderPagination draws: prev, next, and the visible page numbers
PageButtons(pg) ==
    LET maxVisible == 7
        start0 == IF pg.totalPages > maxVisible
                  THEN (IF pg.currentPage - 3 > 1 THEN pg.currentPage - 3 ELSE 1)
                  ELSE 1
        endP == IF pg.totalPages > maxVisible
                THEN (IF start0 + maxVisible - 1 < pg.totalPages
                      THEN start0 + maxVisible - 1 ELSE pg.totalPages)
                ELSE pg.totalPages
        startP == IF pg.totalPages > maxVisible /\ endP - start0 < maxVisible - 1
                  THEN (IF endP - maxVisible + 1 > 1 THEN endP - maxVisible + 1 ELSE 1)
                  ELSE start0
    IN  {PageButton("prev", 0), PageButton("next", 0)}
            \cup {PageButton("page", n) : n \in (startP..endP) \cup {1, pg.totalPages}}

\* The table state of the page (t) and its drawn table (d) after
\* renderActiveTable / renderClosedTable(positions, sortKey, sortDir)
renderTable_sliceFromPage(which, t, d, positions, sortKey, sortDir) ==
    IF positions = <<>>
    THEN [t |-> t, d |-> [d EXCEPT !.rows = <<>>, !.empty = TRUE]]
    ELSE LET sortedRows == sortRows(which, positions, sortKey, sortDir)
             totalPages == CeilDivPages(Len(sortedRows))
             page == IF t.page > totalPages THEN totalPages ELSE t.page
             start == page * PAGE_SIZE
         IN  [t |-> [t EXCEPT !.page = page],
              d |-> [d EXCEPT !.empty = FALSE,
                              !.rows = sliceRows(sortedRows, start, start + PAGE_SIZE),
                              !.pagination = renderPagination(page, totalPages,
                                                 positions, sortKey, sortDir)]]

renderTable(which, t, d, positions, sortKey, sortDir) ==
    IF positions = <<>>
    THEN [t |-> t, d |-> [d EXCEPT !.rows = <<>>, !.empty = TRUE]]
    ELSE LET sortedRows == sortRows(which, positions, sortKey, sortDir)
             totalPages == CeilDivPages(Len(sortedRows))
             page == IF t.page > totalPages THEN totalPages ELSE t.page
             start == (page - 1) * PAGE_SIZE
         IN  [t |-> [t EXCEPT !.page = page],
              d |-> [d EXCEPT !.empty = FALSE,
                              !.rows = sliceRows(sortedRows, start, start + PAGE_SIZE),
                              !.pagination = renderPagination(page, totalPages,
                                                 positions, sortKey, sortDir)]]

\* showTableSkeleton: empty state, controls and table body hidden (its rows
\* are not seen again: the next render replaces them), old pagination removed
showTableSkeletonRows(d) ==
    [d EXCEPT !.skeleton = TRUE, !.empty = FALSE, !.rows = <<>>,
              !.pagination = NoPagination]

\* ---- a lookup's tables on their own ----
\* Rows the two endpoints may answer with: ties, absent values and absent dates
RowAt(which, i) ==
    IF which = "active"
    THEN [id |-> i,
          currentValue |-> Num((i * 7) % 5),
          cashPnl |-> IF i % 3 = 0 THEN Undefined ELSE Num(((i * 3) % 7) - 3),
          endDate |-> IF i % 4 = 0 THEN Undefined ELSE DateString((i * 5) % 6)]
    ELSE [id |-> i,
          realizedPnl |-> IF i % 5 = 0 THEN Undefined ELSE Num(((i * 4) % 9) - 4),
          timestamp |-> IF i % 6 = 0 THEN Undefined ELSE Num((i * 11) % 8)]

TableSizes == {0, PAGE_SIZE, MaxTableRows}

TableRows(which, n) == [i \in 1..n |-> RowAt(which, i)]

InitialTable(which) ==
    [positions |-> <<>>, sortKey |-> DefaultSortKey(which), sortDir |-> "desc",
     page |-> 1, pending |-> 0]

InitialDrawn ==
    [skeleton |-> FALSE, empty |-> FALSE, rows |-> <<>>, pagination |-> NoPagination]

\* The two tables share no state, so a run exercises one of them (watched):
\* the other endpoint answers with no rows and the other table is not clicked.
InitTable ==
    /\ IdlePage
    /\ \E w \in Tables :
         input = [screen |-> "entry", watched |-> w,
                  active |-> InitialTable("active"), closed |-> InitialTable("closed")]
    /\ output = [active |-> InitialDrawn, closed |-> InitialDrawn]

\* analyze, as far as the tables go: both lists emptied, both skeletons shown,
\* the two position requests started
TableAnalyze ==
    /\ \A w \in Tables : input[w].pending < MaxPending
    /\ input' = [input EXCEPT !.screen = "dashboard",
                              !.active.positions = <<>>,
                              !.active.pending = @ + 1,
                              !.closed.positions = <<>>,
                              !.closed.pending = @ + 1]
    /\ output' = [w \in Tables |-> showTableSkeletonRows(output[w])]
    /\ UNCHANGED <<pagerVars, appVars>>

\* positionsPromise.then / closedPromise.then, as far as the table goes
TableArrive(which, positions) ==
    /\ input[which].pending > 0
    /\ LET t == [input[which] EXCEPT !.positions = positions, !.page = 1,
                                     !.pending = @ - 1]
           d == [output[which] EXCEPT !.skeleton = FALSE]
           r == renderTable(which, t, d, positions, t.sortKey, t.sortDir)
       IN  /\ input' = [input EXCEPT ![which] = r.t]
           /\ output' = [output EXCEPT ![which] = r.d]
    /\ UNCHANGED <<pagerVars, appVars>>

\* a click on a sort button of the table
TableSort(which, sortKey, sortDir) ==
    /\ input.screen = "dashboard"
    /\ ~output[which].skeleton
    /\ LET t == [input[which] EXCEPT !.sortKey = sortKey, !.sortDir = sortDir,
                                     !.page = 1]
           r == renderTable(which, t, output[which], t.positions, sortKey, sortDir)
       IN  /\ input' = [input EXCEPT ![which] = r.t]
           /\ output' = [output EXCEPT ![which] = r.d]
    /\ UNCHANGED <<pagerVars, appVars>>

\* a click on a pagination button of the table
TablePage(which, val) ==
    /\ input.screen = "dashboard"
    /\ output[which].pagination # NoPagination
    /\ val \in PageButtons(output[which].pagination)
    /\ LET pg == output[which].pagination
           disabled == \/ val.kind = "prev" /\ pg.currentPage <= 1
                       \/ val.kind = "next" /\ pg.currentPage >= pg.totalPages
           newPage == IF val.kind = "prev" THEN pg.currentPage - 1
                      ELSE IF val.kind = "next" THEN pg.currentPage + 1
                      ELSE val.n
       IN  IF ~disabled /\ newPage >= 1 /\ newPage <= pg.totalPages
              /\ newPage # pg.currentPage
           THEN LET t == [input[which] EXCEPT !.page = newPage]
                    r == renderTable(which, t, output[which],
                                     pg.positions, pg.sortKey, pg.sortDir)
                IN  /\ input' = [input EXCEPT ![which] = r.t]
                    /\ output' = [output EXCEPT ![which] = r.d]
           ELSE UNCHANGED <<input, output>>
    /\ UNCHANGED <<pagerVars, appVars>>

\* the back button, as far as the tables go. The dashboard is hidden and what
\* its tables hold is not seen again: analyze puts both under a skeleton and
\* removes their pagination before it shows the dashboard.
TableBack ==
    /\ input.screen = "dashboard"
    /\ input' = [input EXCEPT !.screen = "entry",
                              !.active.positions = <<>>,
                              !.active.sortKey = "currentValue",
                              !.active.sortDir = "desc",
                              !.closed.positions = <<>>,
                              !.closed.sortKey = "timestamp",
                              !.closed.sortDir = "desc"]
    /\ output' = [w \in Tables |-> InitialDrawn]
    /\ UNCHANGED <<pagerVars, appVars>>

ArriveSome ==
    \E w \in Tables : \E n \in (IF w = input.watched THEN TableSizes ELSE {0}) :
        TableArrive(w, TableRows(w, n))

SortSome ==
    \E k \in SortKeys(input.watched) : \E dir \in SortDirs :
        TableSort(input.watched, k, dir)

PageSome == \E w \in Tables : \E val \in PageButtons(output[w].pagination) : TablePage(w, val)

NextTable ==
    \/ TableAnalyze
    \/ ArriveSome
    \/ SortSome
    \/ PageSome
    \/ TableBack

SpecTable == InitTable /\ [][NextTable]_vars

\* A table is drawn from a non-empty list: its skeleton is gone and the
\* list it holds has rows
DrawnWithRows(t, d) == ~d.skeleton /\ t.positions # <<>>

\* How many rows of the list come before its i-th row once the list is
\* sorted: those with a smaller sort value (a larger one when descending), and
\* of those with the same sort value the ones that arrived earlier
RowsAhead(which, t, i) ==
    Cardinality({j \in 1..Len(t.positions) :
        LET o == SortValue(which, t.positions[j], t.sortKey)
            r == SortValue(which, t.positions[i], t.sortKey)
        IN  \/ t.sortDir = "asc" /\ o < r
            \/ t.sortDir = "desc" /\ o > r
            \/ o = r /\ j < i})

\* The drawn rows are page t.page of the sorted list, PAGE_SIZE rows a page
RowsArePage(which, t, d) ==
    LET n == Len(t.positions)
        start == (t.page - 1) * PAGE_SIZE
    IN  /\ Len(d.rows) = (IF n - start < PAGE_SIZE THEN n - start ELSE PAGE_SIZE)
        /\ \A k \in 1..Len(d.rows) :
              \E i \in 1..n : /\ t.positions[i] = d.rows[k]
                              /\ RowsAhead(which, t, i) = start + k - 1

PageInRange(t) == 1 <= t.page /\ t.page <= CeilDivPages(Len(t.positions))

\* Steps of a table seen from its state: a list arrived, the sort changed
\* while the dashboard stayed up, or neither and the page index moved (a
\* pagination click)
PositionsArrived(w) == input'[w].pending < input[w].pending

SortChanged(w) ==
    /\ input.screen = "dashboard" /\ input'.screen = "dashboard"
    /\ input'[w].pending = input[w].pending
    /\ <<input'[w].sortKey, input'[w].sortDir>> # <<input[w].sortKey, input[w].sortDir>>

PageClicked(w) ==
    /\ input.screen = "dashboard" /\ input'.screen = "dashboard"
    /\ input'[w].pending = input[w].pending
    /\ <<input'[w].sortKey, input'[w].sortDir>> = <<input[w].sortKey, input[w].sortDir>>
    /\ input'[w].page # input[w].page
    /\ input[w].page = output[w].pagination.currentPage

\* C29: whenever a table is drawn from a non-empty list its page index is
\* within 1..ceil(rows/PAGE_SIZE) and the drawn rows are exactly that page of
\* the sorted list; a step in which positions arrive or the sort changes
\* leaves the page index at 1; a pagination click leaves it within
\* 1..totalPages.
C29_TablePaging ==
    [][\A w \in Tables :
         /\ DrawnWithRows(input'[w], output'[w])
               => /\ PageInRange(input'[w])
                  /\ RowsArePage(w, input'[w], output'[w])
         /\ PositionsArrived(w) => input'[w].page = 1
         /\ SortChanged(w) => input'[w].page = 1
         /\ PageClicked(w) => /\ 1 <= input'[w].page
                              /\ input'[w].page <= output[w].pagination.totalPages]_vars

\* A three-page table, sorted ascending by a key that is not the default,
\* paged to its last page, which holds the one row left over
C29_Witness ==
    /\ input.screen = "dashboard"
    /\ \E w \in Tables :
         /\ DrawnWithRows(input[w], output[w])
         /\ Len(input[w].positions) = MaxTableRows
         /\ input[w].sortDir = "asc"
         /\ input[w].sortKey # DefaultSortKey(w)
         /\ input[w].page = CeilDivPages(MaxTableRows)
         /\ input[w].page > 2
         /\ Len(output[w].rows) = MaxTableRows - (input[w].page - 1) * PAGE_SIZE
         /\ output[w].pagination.currentPage = input[w].page

\* ---------------------------------------------------------------------
\* Embed popover (createEmbedPopover, showEmbedPopover, _revealEmbed,
\* hideEmbedPopover, the scroll listener and the hover listeners)
\* ---------------------------------------------------------------------
MaxOlder == 2

\* Where the pointer can be: over a title with a slug (A, B), over a title
\* without one (C), over a chart canvas, over the popover, or elsewhere
Anchors == {"A", "B", "C"}

HasSlug(a) == a \in {"A", "B"}

Places == Anchors \cup {"canvas", "popover", "elsewhere"}

\* embedTimeout names the hide timer set last (hideLatest tells whether it is
\* still pending); hide timers set before it and never cleared are counted in
\* hideOlder. embedShowTimeout is the anchor the pending show timer is for.
InitialEmbed ==
    [embedPopover |-> FALSE, embedLocked |-> FALSE, activeEmbedCell |-> "none",
     embedShowTimeout |-> "none", hideLatest |-> FALSE, hideOlder |-> 0]

InitialPopover ==
    [visible |-> FALSE, src |-> "", pointer |-> "elsewhere", hiddenBy |-> "none"]

\* setTimeout(..., 200) assigned to embedTimeout: the timer it named before
\* stays pending if it was
CanSetHideTimer(e) == ~e.hideLatest \/ e.hideOlder < MaxOlder

\* showEmbedPopover(anchor, slug): refused while locked, otherwise the show
\* timer is restarted for this anchor
showEmbedPopover(e, a) ==
    IF ~HasSlug(a) \/ e.embedLocked
    THEN e
    ELSE [e EXCEPT !.embedShowTimeout = a]

\* hideEmbedPopover(): refused while locked, otherwise the show timer is
\* cleared and a hide timer is started
hideEmbedPopover(e) ==
    IF e.embedLocked
    THEN e
    ELSE [e EXCEPT !.embedShowTimeout = "none",
                   !.hideOlder = IF e.hideLatest THEN @ + 1 ELSE @,
                   !.hideLatest = TRUE]

InitPopover ==
    /\ IdlePage
    /\ input = InitialEmbed
    /\ output = InitialPopover

\* mouseover / mouseenter of a title: clearTimeout(embedTimeout), then
\* showEmbedPopover; a title without a slug has no effect
MouseOver(a) ==
    /\ output.pointer = "elsewhere"
    /\ output' = [output EXCEPT !.pointer = a]
    /\ input' = IF HasSlug(a)
                THEN showEmbedPopover([input EXCEPT !.hideLatest = FALSE], a)
                ELSE input
    /\ UNCHANGED <<pagerVars, appVars>>

\* mouseout / mouseleave of a title
MouseOut ==
    /\ output.pointer \in Anchors
    /\ CanSetHideTimer(input)
    /\ output' = [output EXCEPT !.pointer = "elsewhere"]
    /\ input' = IF HasSlug(output.pointer) THEN hideEmbedPopover(input) ELSE input
    /\ UNCHANGED <<pagerVars, appVars>>

\* the pointer moves onto a chart canvas, away from its linked labels
CanvasEnter ==
    /\ output.pointer = "elsewhere"
    /\ output' = [output EXCEPT !.pointer = "canvas"]
    /\ UNCHANGED <<pagerVars, appVars, input>>

\* mouseleave of a chart canvas, caught by the document listener
CanvasLeave ==
    /\ output.pointer = "canvas"
    /\ CanSetHideTimer(input)
    /\ output' = [output EXCEPT !.pointer = "elsewhere"]
    /\ input' = hideEmbedPopover(input)
    /\ UNCHANGED <<pagerVars, appVars>>

\* the show timer fires after 1000 ms: _revealEmbed(anchor, slug)
ShowTimerFires ==
    /\ input.embedShowTimeout # "none"
    /\ input' = [input EXCEPT !.embedPopover = TRUE,
                              !.embedLocked = TRUE,
                              !.activeEmbedCell = input.embedShowTimeout,
                              !.embedShowTimeout = "none"]
    /\ output' = [output EXCEPT !.visible = TRUE,
                                !.src = input.embedShowTimeout,
                                !.hiddenBy = "none"]
    /\ UNCHANGED <<pagerVars, appVars>>

\* a hide timer fires after 200 ms
HideTimerFires ==
    /\ \E latest \in BOOLEAN :
         /\ IF latest THEN input.hideLatest ELSE input.hideOlder > 0
         /\ LET hides == input.embedPopover /\ ~input.embedLocked
                e == IF latest THEN [input EXCEPT !.hideLatest = FALSE]
                               ELSE [input EXCEPT !.hideOlder = @ - 1]
            IN  /\ input' = IF hides THEN [e EXCEPT !.activeEmbedCell = "none"] ELSE e
                /\ output' = IF hides /\ output.visible
                             THEN [output EXCEPT !.visible = FALSE, !.hiddenBy = "timer"]
                             ELSE output
    /\ UNCHANGED <<pagerVars, appVars>>

\* mouseenter of the popover
PopoverEnter ==
    /\ output.visible
    /\ output.pointer = "elsewhere"
    /\ output' = [output EXCEPT !.pointer = "popover"]
    /\ input' = [input EXCEPT !.hideLatest = FALSE, !.embedLocked = TRUE]
    /\ UNCHANGED <<pagerVars, appVars>>

\* mouseleave of the popover
PopoverLeave ==
    /\ output.pointer = "popover"
    /\ CanSetHideTimer(input)
    /\ output' = [output EXCEPT !.pointer = "elsewhere"]
    /\ input' = hideEmbedPopover([input EXCEPT !.embedLocked = FALSE])
    /\ UNCHANGED <<pagerVars, appVars>>

\* a scroll event anywhere in the window
Scroll ==
    /\ IF input.embedPopover /\ output.visible
       THEN /\ input' = [input EXCEPT !.embedLocked = FALSE,
                                      !.embedShowTimeout = "none",
                                      !.hideLatest = FALSE,
                                      !.activeEmbedCell = "none"]
            /\ output' = [output EXCEPT !.visible = FALSE, !.hiddenBy = "scroll"]
       ELSE UNCHANGED <<input, output>>
    /\ UNCHANGED <<pagerVars, appVars>>

MouseOverSome == \E a \in Anchors : MouseOver(a)

NextPopover ==
    \/ MouseOverSome
    \/ MouseOut
    \/ CanvasEnter
    \/ CanvasLeave
    \/ ShowTimerFires
    \/ HideTimerFires
    \/ PopoverEnter
    \/ PopoverLeave
    \/ Scroll

SpecPopover == InitPopover /\ [][NextPopover]_vars

\* A timer that is pending fires: the browser runs it once its delay is over
FairPopover ==
    /\ SpecPopover
    /\ WF_vars(ShowTimerFires)
    /\ WF_vars(HideTimerFires)

\* The popover is up for an anchor and the pointer is no longer over that
\* anchor nor over the popover
LeftRevealed ==
    /\ output.visible
    /\ input.activeEmbedCell \in Anchors
    /\ output.pointer \notin {input.activeEmbedCell, "popover"}

\* C30: once the popover has been revealed for an anchor and the pointer has
\* left that anchor, the popover is eventually hidden by the hide timer, unless
\* the pointer enters the popover or a scroll event hides it first.
C30_HiddenByTimer ==
    LeftRevealed ~> \/ ~output.visible /\ output.hiddenBy = "timer"
                    \/ output.pointer = "popover"
                    \/ ~output.visible /\ output.hiddenBy = "scroll"

\* The popover is up and locked, the pointer is away from its anchor and from
\* the popover, and no timer is pending
C30_Witness ==
    /\ LeftRevealed
    /\ output.pointer = "elsewhere"
    /\ input.embedLocked
    /\ input.embedShowTimeout = "none"
    /\ ~input.hideLatest /\ input.hideOlder = 0


====
